---- MODULE Spec2Model ----
(***************************************************************************)
(* A model of the evaluation core of grudge: projection between            *)
(* discretization descriptors (grudge/projection.py), the memoized         *)
(* reference-matrix functions of grudge/sbp_op.py and the memoized         *)
(* timestep helpers of grudge/dt_utils.py.                                 *)
(***************************************************************************)
EXTENDS Integers, Sequences, FiniteSets, TLC

VARIABLES
    conns,      \* dcoll: the (src, tgt) pairs whose connection has been built
    discrs,     \* dcoll: the descriptors whose discretization has been built
    memo,       \* dcoll: the memoize_in / memoize_on_first_arg dictionaries
    actxCache,  \* actx: the keyed_memoize_in dictionaries, by function and key
    computed,   \* history: how often each memoized body has run to its end
    missN,      \* history: the meshes whose groups were passed to a body that ran
    actxCache2, \* the dictionaries of a second run, given other field data
    evals,      \* the evaluations in progress on the array context
    operators,  \* the model operators constructed (burgers.py, wave.py)
    mesh,       \* the collection's mesh: its dimension and element groups
    last        \* the last call made: its arguments and what it returned or raised

vars == <<conns, discrs, memo, actxCache, computed, missN, actxCache2, evals,
          operators, mesh, last>>

(***************************************************************************)
(* Bounds of the model.                                                    *)
(***************************************************************************)
MaxLen == 2        \* longest object array enumerated
MaxOrder == 1      \* polynomial orders 1..MaxOrder of the element groups
MaxElements == 2   \* meshes of 1..MaxElements volume elements per group
CountCap == 2      \* the history counters stop counting here

(***************************************************************************)
(* Discretization descriptors.  A raw value is what a caller may pass: a   *)
(* string naming a domain, or a DOFDesc object.                            *)
(***************************************************************************)
DISCR_TAG_BASE == "base"
DISCR_TAG_QUAD == "quad"

DOFDesc(domain, tag) == [domain |-> domain, tag |-> tag]

DD_VOLUME == DOFDesc("vol", DISCR_TAG_BASE)

StrDD(s) == [s |-> s, raw |-> "str"]
ObjDD(dd) == [raw |-> "dd", dd |-> dd]

DDs == {DOFDesc("vol", DISCR_TAG_BASE), DOFDesc("vol", DISCR_TAG_QUAD)}

RawDDs == {StrDD("vol")} \cup {ObjDD(dd) : dd \in DDs}

\* as_dofdesc: a DOFDesc is returned as it is, a string names a domain on the
\* base discretization.
as_dofdesc(raw) ==
    IF raw.raw = "dd" THEN raw.dd ELSE DOFDesc(raw.s, DISCR_TAG_BASE)

(***************************************************************************)
(* Field values.  A number, a DOFArray or an object array whose entries    *)
(* are field values.  id is the identity of the object (0: an object made  *)
(* by the call), via the connections applied to a DOFArray's data.         *)
(***************************************************************************)
Num(n) == [id |-> n, items |-> <<>>, kind |-> "num", via |-> <<>>]
DOFArray(i) == [id |-> i, items |-> <<>>, kind |-> "dof", via |-> <<>>]
ObjArray(i, s) == [id |-> i, items |-> s, kind |-> "ary", via |-> <<>>]

SeqsUpTo(S, n) == UNION {[1..k -> S] : k \in 0..n}

Leaves == {Num(1), DOFArray(1)}
Arrays1 == {ObjArray(1, s) : s \in SeqsUpTo(Leaves, MaxLen)}
Arrays2 == {ObjArray(2, <<a>>) : a \in Arrays1}
           \cup {ObjArray(2, <<l, a>>) : l \in Leaves, a \in Arrays1}
           \cup {ObjArray(2, <<a, l>>) : l \in Leaves, a \in Arrays1}
Vecs == Leaves \cup Arrays1 \cup Arrays2

(***************************************************************************)
(* DiscretizationCollection.connection_from_dds(src, tgt)(vec): the        *)
(* connection for the pair, applied to a DOFArray.                         *)
(***************************************************************************)
Connection(src, tgt) == [src |-> src, tgt |-> tgt]

ApplyConnection(conn, vec) ==
    [id |-> vec.id,
     items |-> <<>>,
     kind |-> "dof",
     via |-> Append(vec.via, conn)]

RECURSIVE Flatten(_)
Flatten(ss) == IF ss = <<>> THEN <<>> ELSE Head(ss) \o Flatten(Tail(ss))

(***************************************************************************)
(* project(dcoll, src, tgt, vec).  The value is the result and the         *)
(* requests made to dcoll.connection_from_dds, in call order.              *)
(* obj_array_vectorize applies the function to every entry, in index       *)
(* order, and stores each result at the same index of a new array.         *)
(***************************************************************************)
RECURSIVE project(_, _, _)

\* The descriptors compared as passed, without as_dofdesc.
project_raw_compare(src, tgt, vec) ==
    IF src = tgt
    THEN [calls |-> <<>>, res |-> vec]
    ELSE IF vec.kind = "ary"
    THEN LET rs == [i \in DOMAIN vec.items |->
                        project(src, tgt, vec.items[i])]
         IN [calls |-> Flatten([i \in DOMAIN rs |-> rs[i].calls]),
             res |-> ObjArray(0, [i \in DOMAIN rs |-> rs[i].res])]
    ELSE IF vec.kind = "num"
    THEN [calls |-> <<>>, res |-> vec]
    ELSE LET conn == Connection(as_dofdesc(src), as_dofdesc(tgt))
         IN [calls |-> <<conn>>, res |-> ApplyConnection(conn, vec)]

\* The array branch visiting the entries in reverse order.
project_reversed(src, tgt, vec) ==
    IF as_dofdesc(src) = as_dofdesc(tgt)
    THEN [calls |-> <<>>, res |-> vec]
    ELSE IF vec.kind = "ary"
    THEN LET rs == [i \in DOMAIN vec.items |->
                        project(src, tgt, vec.items[i])]
             n == Len(rs)
         IN [calls |-> Flatten([i \in DOMAIN rs |-> rs[n + 1 - i].calls]),
             res |-> ObjArray(0, [i \in DOMAIN rs |-> rs[n + 1 - i].res])]
    ELSE IF vec.kind = "num"
    THEN [calls |-> <<>>, res |-> vec]
    ELSE LET conn == Connection(as_dofdesc(src), as_dofdesc(tgt))
         IN [calls |-> <<conn>>, res |-> ApplyConnection(conn, vec)]

\* Without the early return for numbers.
project_no_number_case(src, tgt, vec) ==
    IF as_dofdesc(src) = as_dofdesc(tgt)
    THEN [calls |-> <<>>, res |-> vec]
    ELSE IF vec.kind = "ary"
    THEN LET rs == [i \in DOMAIN vec.items |->
                        project(src, tgt, vec.items[i])]
         IN [calls |-> Flatten([i \in DOMAIN rs |-> rs[i].calls]),
             res |-> ObjArray(0, [i \in DOMAIN rs |-> rs[i].res])]
    ELSE LET conn == Connection(as_dofdesc(src), as_dofdesc(tgt))
         IN [calls |-> <<conn>>, res |-> ApplyConnection(conn, vec)]

\* The connection requested with target and source exchanged.
project_swapped(src, tgt, vec) ==
    IF as_dofdesc(src) = as_dofdesc(tgt)
    THEN [calls |-> <<>>, res |-> vec]
    ELSE IF vec.kind = "ary"
    THEN LET rs == [i \in DOMAIN vec.items |->
                        project(src, tgt, vec.items[i])]
         IN [calls |-> Flatten([i \in DOMAIN rs |-> rs[i].calls]),
             res |-> ObjArray(0, [i \in DOMAIN rs |-> rs[i].res])]
    ELSE IF vec.kind = "num"
    THEN [calls |-> <<>>, res |-> vec]
    ELSE LET conn == Connection(as_dofdesc(tgt), as_dofdesc(src))
         IN [calls |-> <<conn>>, res |-> ApplyConnection(conn, vec)]

project(src, tgt, vec) ==
    IF as_dofdesc(src) = as_dofdesc(tgt)
    THEN [calls |-> <<>>, res |-> vec]
    ELSE IF vec.kind = "ary"
    THEN LET rs == [i \in DOMAIN vec.items |->
                        project(src, tgt, vec.items[i])]
         IN [calls |-> Flatten([i \in DOMAIN rs |-> rs[i].calls]),
             res |-> ObjArray(0, [i \in DOMAIN rs |-> rs[i].res])]
    ELSE IF vec.kind = "num"
    THEN [calls |-> <<>>, res |-> vec]
    ELSE LET conn == Connection(as_dofdesc(src), as_dofdesc(tgt))
         IN [calls |-> <<conn>>, res |-> ApplyConnection(conn, vec)]

Range(s) == {s[i] : i \in DOMAIN s}

NoCall == [op |-> "none"]

\* The evaluations that may be in progress at once, and one not started.
Evaluations == {"e1", "e2"}

Idle == [pc |-> "idle"]

(***************************************************************************)
(* Meshes.  A cell has a signed volume and the areas of its dim + 1 faces  *)
(* (the point faces of an interval have area 1); an element group has a    *)
(* type and its cells.                                                     *)
(***************************************************************************)
MaxGroups == 2

MeshCell(v, faces) == [faces |-> faces, vol |-> v]

CellChoices(dim) ==
    {MeshCell(-2, [f \in 1..(dim + 1) |-> IF dim = 1 THEN 1 ELSE f]),
     MeshCell(3, [f \in 1..(dim + 1) |-> 1])}

MeshGroup(type, cells) == [type |-> type, cells |-> cells]

GroupTypes == {"simplex", "tensor"}

GroupChoices(dim) ==
    {MeshGroup(type, cells) :
         type \in GroupTypes,
         cells \in SeqsUpTo(CellChoices(dim), MaxElements) \ {<<>>}}

MeshChoices(dim) ==
    {[dim |-> dim, groups |-> gs] :
         gs \in SeqsUpTo(GroupChoices(dim), MaxGroups) \ {<<>>}}

\* One triangle.
DefaultMesh ==
    [dim |-> 2,
     groups |-> <<MeshGroup("simplex", <<MeshCell(3, [f \in 1..3 |-> 1])>>)>>]

(***************************************************************************)
(* A call of project on the collection.  connection_from_dds builds and    *)
(* caches the connection and the two discretizations it joins.             *)
(***************************************************************************)
Project(src, tgt, vec) ==
    LET out == project(src, tgt, vec)
    IN /\ conns' = conns \cup Range(out.calls)
       /\ discrs' = discrs \cup {c.src : c \in Range(out.calls)}
                           \cup {c.tgt : c \in Range(out.calls)}
       /\ last' = [src |-> src,
                   tgt |-> tgt,
                   vec |-> vec,
                   calls |-> out.calls,
                   res |-> out.res,
                   op |-> "project"]
       /\ UNCHANGED <<mesh, operators, memo, actxCache, computed, missN, actxCache2, evals>>

\* A collection and an array context after construction: nothing built, no
\* memoized result.
Init ==
    /\ conns = {}
    /\ discrs = {}
    /\ memo = <<>>
    /\ actxCache = <<>>
    /\ computed = <<>>
    /\ missN = {}
    /\ actxCache2 = <<>>
    /\ evals = [e \in Evaluations |-> Idle]
    /\ operators = {}
    /\ mesh = DefaultMesh
    /\ last = NoCall


NextProject ==
    \E src \in RawDDs, tgt \in RawDDs, vec \in Vecs : Project(src, tgt, vec)

SpecProject == Init /\ [][NextProject]_vars

(***************************************************************************)
(* Claims about project, checked under SpecProject.                        *)
(***************************************************************************)
SameDD(call) == as_dofdesc(call.src) = as_dofdesc(call.tgt)

\* C1: when src and tgt normalize to equal descriptors, project returns the
\* very vec it was given, whatever its kind, and requests no connection.
C1_IdentityShortCircuit ==
    (last.op = "project" /\ SameDD(last))
        => (last.res = last.vec /\ last.calls = <<>>)

\* A call whose descriptors are equal only after as_dofdesc, on an object
\* array holding a DOFArray.
C1_Witness ==
    /\ last.op = "project"
    /\ last.src # last.tgt
    /\ SameDD(last)
    /\ last.vec.kind = "ary"
    /\ \E i \in DOMAIN last.vec.items : last.vec.items[i].kind = "dof"
    /\ last.res = last.vec

\* C2: with src # tgt, an object array maps to an object array of the same
\* shape whose entry at every index is project of the entry at that index,
\* nested arrays by the same rule; the connection requests are those of the
\* entries, in index order.
C2_ElementwiseRecursion ==
    (last.op = "project" /\ ~SameDD(last) /\ last.vec.kind = "ary")
        => /\ last.res.kind = "ary"
           /\ DOMAIN last.res.items = DOMAIN last.vec.items
           /\ \A i \in DOMAIN last.vec.items :
                /\ last.res.items[i]
                     = project(last.src, last.tgt, last.vec.items[i]).res
                /\ last.vec.items[i].kind = "num"
                     => last.res.items[i] = last.vec.items[i]
                /\ last.vec.items[i].kind = "dof"
                     => last.res.items[i]
                          = ApplyConnection(
                                Connection(as_dofdesc(last.src),
                                           as_dofdesc(last.tgt)),
                                last.vec.items[i])
                /\ last.vec.items[i].kind = "ary"
                     => /\ last.res.items[i].kind = "ary"
                        /\ DOMAIN last.res.items[i].items
                             = DOMAIN last.vec.items[i].items
           /\ last.calls
                = Flatten([i \in DOMAIN last.vec.items |->
                    project(last.src, last.tgt, last.vec.items[i]).calls])

\* A nested array followed by a number, projected between two descriptors.
C2_Witness ==
    /\ last.op = "project"
    /\ ~SameDD(last)
    /\ last.vec.kind = "ary"
    /\ Len(last.vec.items) = 2
    /\ last.vec.items[1].kind = "ary"
    /\ Len(last.vec.items[1].items) = 2
    /\ last.vec.items[2].kind = "num"
    /\ last.res.items[2] = last.vec.items[2]

\* C3: with src # tgt, a plain number is returned unchanged and no
\* connection is requested: the collection's connections and
\* discretizations stay as they were.
C3_NumberPassThrough ==
    [][(last'.op = "project" /\ ~SameDD(last') /\ last'.vec.kind = "num")
           => /\ last'.res = last'.vec
              /\ last'.calls = <<>>
              /\ conns' = conns
              /\ discrs' = discrs]_vars

\* A number projected between two descriptors after a connection was built.
C3_Witness ==
    /\ last.op = "project"
    /\ ~SameDD(last)
    /\ last.vec.kind = "num"
    /\ last.res = last.vec
    /\ conns # {}

\* C4: with src # tgt, a DOFArray maps to the connection from the normalized
\* source to the normalized target, requested once and applied once to vec;
\* the collection only gains that connection and its discretizations.
C4_ConnectionApplied ==
    [][(last'.op = "project" /\ ~SameDD(last') /\ last'.vec.kind = "dof")
           => LET conn == Connection(as_dofdesc(last'.src),
                                     as_dofdesc(last'.tgt))
              IN /\ last'.calls = <<conn>>
                 /\ last'.res = ApplyConnection(conn, last'.vec)
                 /\ last'.res.id = last'.vec.id
                 /\ last'.vec.via = <<>>
                 /\ conns' = conns \cup {conn}
                 /\ discrs' = discrs \cup {conn.src, conn.tgt}]_vars

\* A DOFArray projected from the volume, named by a string, to the
\* quadrature discretization.
C4_Witness ==
    /\ last.op = "project"
    /\ last.src = StrDD("vol")
    /\ as_dofdesc(last.tgt) = DOFDesc("vol", DISCR_TAG_QUAD)
    /\ last.vec.kind = "dof"
    /\ last.res.via = <<Connection(DD_VOLUME, DOFDesc("vol", DISCR_TAG_QUAD))>>
    /\ Connection(DD_VOLUME, DOFDesc("vol", DISCR_TAG_QUAD)) \in conns

(***************************************************************************)
(* Element groups.  A mesh of m volume elements per group gives a base and *)
(* a quadrature volume group of m triangles, and face groups: the          *)
(* all-faces discretization has nfaces * m face elements, a boundary       *)
(* discretization fewer.  discretization_key is what the memoized          *)
(* functions key their results by: the group's class, dimension and order, *)
(* not its element count.                                                  *)
(***************************************************************************)
Orders == 1..MaxOrder
Meshes == 1..MaxElements
DTypes == {"float32", "float64"}

VolGroup(cls, p, m) ==
    [dim |-> 2,
     cls |-> cls,
     nelements |-> m,
     nfaces |-> 3,
     order |-> p]
FaceGroup(cls, p, n) ==
    [dim |-> 1,
     cls |-> cls,
     nelements |-> n,
     nfaces |-> 2,
     order |-> p]

FaceCounts(m) == {3 * m, m}

discretization_key(grp) ==
    [dim |-> grp.dim, cls |-> grp.cls, order |-> grp.order]

(***************************************************************************)
(* keyed_memoize_in(actx, function, key): one dictionary per function on   *)
(* the array context.  A request returns the entry stored under the key,   *)
(* or runs the body, stores what it returns and returns that.  A body that *)
(* raises stores nothing.  Every function below takes the dictionaries c   *)
(* and gives the dictionaries after the call, what was returned or raised  *)
(* and the keys whose bodies ran to their end.                             *)
(***************************************************************************)
CacheKey(fn, keys) == [fn |-> fn, keys |-> keys]

NoValue == [form |-> "none"]

\* actx.freeze(actx.from_numpy(a)): the frozen array of a's element type.
\* val names the reference matrix by its function and key, uses are the
\* cached matrices it was computed from.
Frozen(dtype, k, uses) ==
    [form |-> "frozen", dtype |-> dtype, uses |-> uses, val |-> k]

Cached(c, k) == k \in DOMAIN c

\* A dictionary that keeps only the entry stored last.
Insert_only_last(c, k, v) == (k :> v)

Insert(c, k, v) == (k :> v) @@ c

Returned(k, c, v, comp) ==
    [comp |-> comp,
     cache |-> c,
     exc |-> "none",
     key |-> k,
     ret |-> v]

Raised(k, c, e, comp) ==
    [comp |-> comp,
     cache |-> c,
     exc |-> e,
     key |-> k,
     ret |-> NoValue]

\* The body run on every request, the entry found never used.
keyed_memoize_in_no_lookup(c, k, body) ==
    IF body.exc # "none" THEN Raised(k, body.cache, body.exc, body.comp)
    ELSE Returned(k, Insert(body.cache, k, body.ret), body.ret,
                  Append(body.comp, k))

\* The result stored in the dictionary as it was before the body ran.
keyed_memoize_in_outer_dict(c, k, body) ==
    IF Cached(c, k) THEN Returned(k, c, c[k], <<>>)
    ELSE IF body.exc # "none"
    THEN Raised(k, body.cache, body.exc, body.comp)
    ELSE Returned(k, Insert(c, k, body.ret), body.ret, Append(body.comp, k))

\* new_inner of keyed_memoize_in: body is the outcome of inner(*args) run on
\* the dictionaries c.
keyed_memoize_in(c, k, body) ==
    IF Cached(c, k) THEN Returned(k, c, c[k], <<>>)
    ELSE IF body.exc # "none"
    THEN Raised(k, body.cache, body.exc, body.comp)
    ELSE Returned(k, Insert(body.cache, k, body.ret), body.ret,
                  Append(body.comp, k))

VqiKey(base_grp, quad_grp) ==
    CacheKey("volume_quadrature_interpolation_matrix",
             <<discretization_key(base_grp), discretization_key(quad_grp)>>)

get_volume_vand(c, base_grp, quad_grp) ==
    Returned(VqiKey(base_grp, quad_grp), c,
             Frozen("float64", VqiKey(base_grp, quad_grp), <<>>), <<>>)

volume_quadrature_interpolation_matrix(c, base_grp, quad_grp) ==
    keyed_memoize_in(c, VqiKey(base_grp, quad_grp),
                     get_volume_vand(c, base_grp, quad_grp))

SurfKey(base_grp, quad_face_grp) ==
    CacheKey("surface_quadrature_interpolation_matrix",
             <<discretization_key(base_grp),
               discretization_key(quad_face_grp)>>)

\* The array allocated with the caller's dtype is never written to or
\* returned: the matrix stored is the float64 product of two Vandermonde
\* matrices.
get_surface_vand(c, base_grp, quad_face_grp, dtype) ==
    LET k == SurfKey(base_grp, quad_face_grp)
    IN IF quad_face_grp.nelements # base_grp.nfaces * base_grp.nelements
       THEN Raised(k, c, "AssertionError", <<>>)
       ELSE Returned(k, c, Frozen("float64", k, <<>>), <<>>)

surface_quadrature_interpolation_matrix(c, base_grp, quad_face_grp, dtype) ==
    keyed_memoize_in(c, SurfKey(base_grp, quad_face_grp),
                     get_surface_vand(c, base_grp, quad_face_grp, dtype))

MassKey(base_grp, quad_grp) ==
    CacheKey("quadrature_based_mass_matrix",
             <<discretization_key(base_grp), discretization_key(quad_grp)>>)

get_ref_quad_mass_mat(c, base_grp, quad_grp) ==
    LET k == MassKey(base_grp, quad_grp)
        vq == volume_quadrature_interpolation_matrix(c, base_grp, quad_grp)
    IN Returned(k, vq.cache, Frozen("float64", k, <<vq.ret>>), vq.comp)

quadrature_based_mass_matrix(c, base_grp, quad_grp) ==
    keyed_memoize_in(c, MassKey(base_grp, quad_grp),
                     get_ref_quad_mass_mat(c, base_grp, quad_grp))

InvMassKey(base_grp, quad_grp) ==
    CacheKey("quadrature_based_inverse_mass_matrix",
             <<discretization_key(base_grp), discretization_key(quad_grp)>>)

get_ref_quad_inv_mass_mat(c, base_grp, quad_grp) ==
    LET k == InvMassKey(base_grp, quad_grp)
        mm == quadrature_based_mass_matrix(c, base_grp, quad_grp)
    IN Returned(k, mm.cache, Frozen("float64", k, <<mm.ret>>), mm.comp)

quadrature_based_inverse_mass_matrix(c, base_grp, quad_grp) ==
    keyed_memoize_in(c, InvMassKey(base_grp, quad_grp),
                     get_ref_quad_inv_mass_mat(c, base_grp, quad_grp))

L2Key(base_grp, quad_grp) ==
    CacheKey("quadrature_based_l2_projection_matrix",
             <<discretization_key(base_grp), discretization_key(quad_grp)>>)

get_ref_l2_proj_mat(c, base_grp, quad_grp) ==
    LET k == L2Key(base_grp, quad_grp)
        vq == volume_quadrature_interpolation_matrix(c, base_grp, quad_grp)
        im == quadrature_based_inverse_mass_matrix(vq.cache, base_grp,
                                                   quad_grp)
    IN Returned(k, im.cache, Frozen("float64", k, <<vq.ret, im.ret>>),
                vq.comp \o im.comp)

quadrature_based_l2_projection_matrix(c, base_grp, quad_grp) ==
    keyed_memoize_in(c, L2Key(base_grp, quad_grp),
                     get_ref_l2_proj_mat(c, base_grp, quad_grp))

BdryKey(base_grp, face_quad_grp) ==
    CacheKey("boundary_matrices",
             <<discretization_key(base_grp),
               discretization_key(face_quad_grp)>>)

get_ref_boundary_mats(c, base_grp, face_quad_grp) ==
    Returned(BdryKey(base_grp, face_quad_grp), c,
             Frozen("float64", BdryKey(base_grp, face_quad_grp), <<>>), <<>>)

boundary_matrices(c, base_grp, face_quad_grp) ==
    keyed_memoize_in(c, BdryKey(base_grp, face_quad_grp),
                     get_ref_boundary_mats(c, base_grp, face_quad_grp))

HybKey(face_grp, quad_face_grp, vol_grp, quad_vol_grp) ==
    CacheKey("hybridized_sbp_operators",
             <<discretization_key(face_grp),
               discretization_key(quad_face_grp),
               discretization_key(vol_grp),
               discretization_key(quad_vol_grp)>>)

get_hybridized_sbp_mats(c, face_grp, quad_face_grp, vol_grp, quad_vol_grp, dtype) ==
    LET k == HybKey(face_grp, quad_face_grp, vol_grp, quad_vol_grp)
        mm == quadrature_based_mass_matrix(c, vol_grp, quad_vol_grp)
        pm == quadrature_based_l2_projection_matrix(mm.cache, vol_grp,
                                                    quad_vol_grp)
        vf == surface_quadrature_interpolation_matrix(pm.cache, vol_grp,
                                                      quad_face_grp, dtype)
        bm == boundary_matrices(vf.cache, vol_grp, quad_face_grp)
    IN IF vf.exc # "none"
       THEN Raised(k, vf.cache, vf.exc, mm.comp \o pm.comp \o vf.comp)
       ELSE Returned(k, bm.cache,
                     Frozen("float64", k, <<mm.ret, pm.ret, vf.ret, bm.ret>>),
                     mm.comp \o pm.comp \o vf.comp \o bm.comp)

hybridized_sbp_operators(c, face_grp, quad_face_grp, vol_grp, quad_vol_grp, dtype) ==
    keyed_memoize_in(c, HybKey(face_grp, quad_face_grp, vol_grp, quad_vol_grp),
                     get_hybridized_sbp_mats(c, face_grp, quad_face_grp,
                                             vol_grp, quad_vol_grp, dtype))

LiftKey(face_grp, vol_grp) ==
    CacheKey("sbp_lifting_matrix",
             <<discretization_key(face_grp), discretization_key(vol_grp)>>)

\* The blocks Vf.T @ diag(weights) are assigned into an array allocated with
\* the caller's dtype: the matrix stored has that element type.
get_ref_sbp_lifting_mat(c, face_grp, vol_grp, dtype) ==
    LET k == LiftKey(face_grp, vol_grp)
    IN IF face_grp.nelements # vol_grp.nfaces * vol_grp.nelements
       THEN Raised(k, c, "AssertionError", <<>>)
       ELSE Returned(k, c, Frozen(dtype, k, <<>>), <<>>)

sbp_lifting_matrix(c, face_grp, vol_grp, dtype) ==
    keyed_memoize_in(c, LiftKey(face_grp, vol_grp),
                     get_ref_sbp_lifting_mat(c, face_grp, vol_grp, dtype))

(***************************************************************************)
(* The collection's own caches.  d is the collection: its memoize          *)
(* dictionaries (memoize_in on dcoll, memoize_on_first_arg keyed by the    *)
(* arguments after dcoll) and the discretizations built so far.  Every     *)
(* function gives the collection after the call, the result or exception   *)
(* and the keys whose bodies ran to their end.                             *)
(***************************************************************************)
MemoKey(fn, args) == [fn |-> fn, args |-> args]

DReturned(k, d, v, comp) ==
    [comp |-> comp, exc |-> "none", key |-> k, ret |-> v, d |-> d]

DRaised(k, d, e, comp) ==
    [comp |-> comp,
     exc |-> e,
     key |-> k,
     ret |-> NoValue,
     d |-> d]

\* dcoll.discr_from_dd(dd): the discretization of the descriptor, built on
\* first request.
discr_from_dd(d, dd) == [d EXCEPT !.discrs = @ \cup {as_dofdesc(dd)}]

\* grudge.geometry.area_element(actx, dcoll, dd): memoized on the collection
\* by descriptor, frozen.
area_element(d, dd) ==
    LET k == MemoKey("area_element", <<as_dofdesc(dd)>>)
        d1 == discr_from_dd(d, dd)
        v == Frozen("float64", k, <<>>)
    IN IF Cached(d.memo, k) THEN DReturned(k, d, d.memo[k], <<>>)
       ELSE DReturned(k, [d1 EXCEPT !.memo = Insert(@, k, v)], v, <<k>>)

\* arraycontext.thaw: the array bound to an array context; the frozen
\* original stays as it is.
thaw(v) == [v EXCEPT !.form = "thawed"]

\* The element groups of the mesh.
NoneDD == [raw |-> "none"]

\* memoize_on_first_arg: keyed by the arguments after dcoll.  The value is
\* the Python list min_delta_rs the body built, the same object on every
\* later call.
dt_non_geometric_factors(d, args) ==
    LET k == MemoKey("dt_non_geometric_factors", args)
        dd == IF args = <<>> THEN ObjDD(DD_VOLUME) ELSE args[1]
        d1 == discr_from_dd(d, dd)
        v == [form |-> "list", val |-> k]
    IN IF Cached(d.memo, k) THEN DReturned(k, d, d.memo[k], <<>>)
       ELSE DReturned(k, [d1 EXCEPT !.memo = Insert(@, k, v)], v, <<k>>)

\* h_max_from_volume(dcoll) and h_min_from_volume(dcoll): a float, from the
\* mass operator applied to ones on the volume discretization.
h_from_volume(fn, d, args) ==
    LET k == MemoKey(fn, args)
        dd == ObjDD(DD_VOLUME)
        d1 == discr_from_dd(d, dd)
        ae == area_element(d1, dd)
        v == [form |-> "float", val |-> k]
    IN IF Cached(d.memo, k) THEN DReturned(k, d, d.memo[k], <<>>)
       ELSE DReturned(k, [ae.d EXCEPT !.memo = Insert(@, k, v)], v,
                      Append(ae.comp, k))

h_max_from_volume(d, args) == h_from_volume("h_max_from_volume", d, args)

h_min_from_volume(d, args) == h_from_volume("h_min_from_volume", d, args)

\* Exact quotients.
Frac(n, d) == [n |-> n, d |-> d]

Abs(x) == IF x < 0 THEN -x ELSE x

RECURSIVE SumTo(_, _)
SumTo(f, n) == IF n = 0 THEN 0 ELSE f[n] + SumTo(f, n - 1)

\* grp.nunit_dofs of the volume and of the face groups.
nunit_dofs(dim) == dim + 1

face_nunit_dofs(dim) == dim

\* op.elementwise_integral(dcoll, dd, ones): the integral over each element,
\* at each of its nodes; it takes the area elements of dd.
elementwise_integral(d, dd, data) ==
    LET ae == area_element(d, dd)
    IN DReturned(ae.key, ae.d, data, ae.comp)

\* The cell volumes at the nodes of the cells, signed.
CellIntegrals(d) ==
    [g \in DOMAIN d.groups |->
        [e \in DOMAIN d.groups[g].cells |->
            [i \in 1..nunit_dofs(d.dim) |-> d.groups[g].cells[e].vol]]]

\* The face areas at the face nodes; the faces of a group are laid out face
\* by face, the cells within a face.
FaceIntegrals(d) ==
    [g \in DOMAIN d.groups |->
        LET cells == d.groups[g].cells
            nel == Len(cells)
        IN [fe \in 1..((d.dim + 1) * nel) |->
               [j \in 1..face_nunit_dofs(d.dim) |->
                   cells[((fe - 1) % nel) + 1].faces[((fe - 1) \div nel) + 1]]]]

\* Only the first group is tested.
any_non_simplex_first_only(groups) == groups[1].type # "simplex"

\* any(not isinstance(grp, SimplexElementGroupBase) for grp in groups)
any_non_simplex(groups) ==
    \E g \in DOMAIN groups : groups[g].type # "simplex"

\* einsum("fej->e", face_ae_i.reshape(nfaces, nelements, nunit_dofs))
\*   / afgrp.nunit_dofs
surface_area(face_ae_i, nfaces, nelements, nunit, e) ==
    Frac(SumTo([f \in 1..nfaces |->
                    SumTo([j \in 1..nunit |->
                               Abs(face_ae_i[(f - 1) * nelements + e][j])],
                          nunit)],
               nfaces),
         nunit)

\* The quotient without the factor dcoll.dim.
inradius_without_dim(sae, cv, dim) == Frac(sae.d * cv, sae.n)

\* einsum("e,ei->ei", 1/sae_i, cv_i) * dcoll.dim
inradius(sae, cv, dim) == Frac(sae.d * cv * dim, sae.n)

FrozenData(k, data) ==
    [form |-> "frozen",
     dtype |-> "float64",
     uses |-> <<>>,
     val |-> k,
     data |-> data]

\* dt_geometric_factors(dcoll, dd): not memoized.  The discretization of
\* dd is looked up and its groups tested; the absolute cell volumes are
\* integrated and, on a mesh of dimension 1, returned frozen; otherwise the
\* face descriptor is made from dd.discretization_tag, the face areas are
\* integrated and summed per cell, and the quotient is returned frozen.
dt_geometric_factors(d, dd) ==
    LET k == MemoKey("dt_geometric_factors", <<>>)
        dd1 == IF dd = NoneDD THEN ObjDD(DD_VOLUME) ELSE dd
        d1 == discr_from_dd(d, dd1)
        vol == elementwise_integral(d1, dd1, CellIntegrals(d))
        cell_vols == [g \in DOMAIN vol.ret |->
                         [e \in DOMAIN vol.ret[g] |->
                             [i \in DOMAIN vol.ret[g][e] |->
                                 Abs(vol.ret[g][e][i])]]]
        dd_face == ObjDD(DOFDesc("all_faces", dd1.dd.tag))
        d2 == discr_from_dd(vol.d, dd_face)
        face == elementwise_integral(d2, dd_face, FaceIntegrals(d))
        surface_areas ==
            [g \in DOMAIN d.groups |->
                [e \in DOMAIN d.groups[g].cells |->
                    surface_area(face.ret[g], d.dim + 1,
                                 Len(d.groups[g].cells),
                                 face_nunit_dofs(d.dim), e)]]
    IN IF any_non_simplex(d.groups)
       THEN DRaised(k, d1, "NotImplementedError", <<>>)
       ELSE IF d.dim = 1
       THEN DReturned(k, vol.d,
                      FrozenData(k, [g \in DOMAIN cell_vols |->
                                        [e \in DOMAIN cell_vols[g] |->
                                            [i \in DOMAIN cell_vols[g][e] |->
                                                Frac(cell_vols[g][e][i], 1)]]]),
                      vol.comp)
       ELSE IF dd1.raw # "dd"
       THEN DRaised(k, vol.d, "AttributeError", vol.comp)
       ELSE DReturned(k, face.d,
                      FrozenData(k, [g \in DOMAIN cell_vols |->
                                        [e \in DOMAIN cell_vols[g] |->
                                            [i \in DOMAIN cell_vols[g][e] |->
                                                inradius(surface_areas[g][e],
                                                         cell_vols[g][e][i],
                                                         d.dim)]]]),
                      vol.comp \o face.comp)

\* characteristic_lengthscales(actx, dcoll): memoize_in on the collection,
\* keyed by no argument; the frozen product is stored, a thawed copy
\* returned.
characteristic_lengthscales(d) ==
    LET k == MemoKey("characteristic_lengthscales", <<>>)
        cng == dt_non_geometric_factors(d, <<>>)
        geo == dt_geometric_factors(cng.d, NoneDD)
        v == Frozen("float64", k, <<cng.ret, geo.ret>>)
    IN IF Cached(d.memo, k) THEN DReturned(k, d, thaw(d.memo[k]), <<>>)
       ELSE IF geo.exc # "none"
       THEN DRaised(k, geo.d, geo.exc, cng.comp \o geo.comp)
       ELSE DReturned(k, [geo.d EXCEPT !.memo = Insert(@, k, v)], thaw(v),
                      Append(cng.comp \o geo.comp, k))

(***************************************************************************)
(* The calls of a session on one array context and one collection.         *)
(***************************************************************************)
Min(a, b) == IF a < b THEN a ELSE b

CountOf(cnt, k) == IF k \in DOMAIN cnt THEN cnt[k] ELSE 0

RECURSIVE Counted(_, _)
Counted(cnt, comp) ==
    IF comp = <<>> THEN cnt
    ELSE Counted((Head(comp) :> Min(CountOf(cnt, Head(comp)) + 1, CountCap))
                     @@ cnt,
                 Tail(comp))

\* A request to a memoized reference-matrix function with groups of mesh m;
\* compat: the face group has nfaces times the volume group's elements.
MatrixRequest(r, m, compat) ==
    /\ actxCache' = r.cache
    /\ computed' = Counted(computed, r.comp)
    /\ missN' = IF r.comp = <<>> THEN missN ELSE missN \cup {m}
    /\ last' = [op |-> r.key.fn,
                m |-> m,
                exc |-> r.exc,
                key |-> r.key,
                ret |-> r.ret,
                compat |-> compat,
                hit |-> (r.exc = "none" /\ r.comp = <<>>)]
    /\ UNCHANGED <<mesh, operators, conns, discrs, memo, actxCache2, evals>>

\* A call of a memoized function of the collection.
CollectionRequest(r) ==
    /\ memo' = r.d.memo
    /\ discrs' = r.d.discrs
    /\ computed' = Counted(computed, r.comp)
    /\ last' = [op |-> r.key.fn,
                exc |-> r.exc,
                key |-> r.key,
                ret |-> r.ret,
                hit |-> (r.exc = "none" /\ r.comp = <<>>)]
    /\ UNCHANGED <<mesh, operators, conns, actxCache, missN, actxCache2, evals>>

Dcoll ==
    [discrs |-> discrs,
     memo |-> memo,
     dim |-> mesh.dim,
     groups |-> mesh.groups]

VolumeQuadratureInterpolationMatrix ==
    \E p \in Orders, m \in Meshes :
        MatrixRequest(volume_quadrature_interpolation_matrix(
                          actxCache, VolGroup("base", p, m),
                          VolGroup("quad", p, m)), m, TRUE)

SurfaceQuadratureInterpolationMatrix ==
    \E p \in Orders, m \in Meshes : \E n \in FaceCounts(m), dtype \in DTypes :
        MatrixRequest(surface_quadrature_interpolation_matrix(
                          actxCache, VolGroup("base", p, m),
                          FaceGroup("quad", p, n), dtype), m, n = 3 * m)

QuadratureBasedMassMatrix ==
    \E p \in Orders, m \in Meshes :
        MatrixRequest(quadrature_based_mass_matrix(
                          actxCache, VolGroup("base", p, m),
                          VolGroup("quad", p, m)), m, TRUE)

QuadratureBasedInverseMassMatrix ==
    \E p \in Orders, m \in Meshes :
        MatrixRequest(quadrature_based_inverse_mass_matrix(
                          actxCache, VolGroup("base", p, m),
                          VolGroup("quad", p, m)), m, TRUE)

QuadratureBasedL2ProjectionMatrix ==
    \E p \in Orders, m \in Meshes :
        MatrixRequest(quadrature_based_l2_projection_matrix(
                          actxCache, VolGroup("base", p, m),
                          VolGroup("quad", p, m)), m, TRUE)

BoundaryMatrices ==
    \E p \in Orders, m \in Meshes : \E n \in FaceCounts(m) :
        MatrixRequest(boundary_matrices(
                          actxCache, VolGroup("base", p, m),
                          FaceGroup("quad", p, n)), m, n = 3 * m)

HybridizedSbpOperators ==
    \E p \in Orders, m \in Meshes : \E n \in FaceCounts(m), dtype \in DTypes :
        MatrixRequest(hybridized_sbp_operators(
                          actxCache, FaceGroup("base", p, n),
                          FaceGroup("quad", p, n), VolGroup("base", p, m),
                          VolGroup("quad", p, m), dtype), m, n = 3 * m)

SbpLiftingMatrix ==
    \E p \in Orders, m \in Meshes : \E n \in FaceCounts(m), dtype \in DTypes :
        MatrixRequest(sbp_lifting_matrix(
                          actxCache, FaceGroup("base", p, n),
                          VolGroup("base", p, m), dtype), m, n = 3 * m)

CharacteristicLengthscales ==
    CollectionRequest(characteristic_lengthscales(Dcoll))

DtNonGeometricFactors ==
    CollectionRequest(dt_non_geometric_factors(Dcoll, <<>>))

HMaxFromVolume == CollectionRequest(h_max_from_volume(Dcoll, <<>>))

HMinFromVolume == CollectionRequest(h_min_from_volume(Dcoll, <<>>))

Next ==
    \/ VolumeQuadratureInterpolationMatrix
    \/ SurfaceQuadratureInterpolationMatrix
    \/ QuadratureBasedMassMatrix
    \/ QuadratureBasedInverseMassMatrix
    \/ QuadratureBasedL2ProjectionMatrix
    \/ BoundaryMatrices
    \/ HybridizedSbpOperators
    \/ SbpLiftingMatrix
    \/ CharacteristicLengthscales
    \/ DtNonGeometricFactors
    \/ HMaxFromVolume
    \/ HMinFromVolume

Spec == Init /\ [][Next]_vars

(***************************************************************************)
(* Claims about the memoized functions, checked under Spec.                *)
(***************************************************************************)
MatrixFns ==
    {"volume_quadrature_interpolation_matrix",
     "surface_quadrature_interpolation_matrix",
     "quadrature_based_mass_matrix",
     "quadrature_based_inverse_mass_matrix",
     "quadrature_based_l2_projection_matrix",
     "boundary_matrices",
     "hybridized_sbp_operators",
     "sbp_lifting_matrix"}

CharLenKey == MemoKey("characteristic_lengthscales", <<>>)

\* C5: on one array context the body of a memoized reference-matrix function
\* runs at most once per tuple of discretization keys, every request that
\* returns gives the entry stored under its key, whichever group objects
\* were passed; characteristic_lengthscales computes its frozen result at
\* most once per collection.
C5_SingleComputationPerKey ==
    /\ \A k \in DOMAIN computed :
         k.fn \in MatrixFns \cup {CharLenKey.fn} => computed[k] <= 1
    /\ \A k \in DOMAIN actxCache : CountOf(computed, k) = 1
    /\ (last.op \in MatrixFns /\ last.exc = "none")
         => /\ last.key \in DOMAIN actxCache
            /\ last.ret = actxCache[last.key]
    /\ CharLenKey \in DOMAIN memo
         => /\ CountOf(computed, CharLenKey) = 1
            /\ memo[CharLenKey].form = "frozen"
    /\ (last.op = CharLenKey.fn /\ last.exc = "none")
         => /\ CharLenKey \in DOMAIN memo
            /\ last.ret = thaw(memo[CharLenKey])

\* A request with the groups of the two-element mesh answered from an entry
\* that a request with the groups of the one-element mesh computed, after
\* characteristic_lengthscales was computed.
C5_Witness ==
    /\ last.op \in MatrixFns
    /\ last.hit
    /\ last.m = 2
    /\ missN = {1}
    /\ computed[last.key] = 1
    /\ CountOf(computed, CharLenKey) = 1

ClaimedFrozen ==
    MatrixFns \cup {"dt_non_geometric_factors", "h_max_from_volume",
                    "h_min_from_volume"}

\* No entry of the array context's or the collection's dictionaries is
\* removed or changed by the step.
WriteOnce ==
    /\ \A k \in DOMAIN actxCache :
         k \in DOMAIN actxCache' /\ actxCache'[k] = actxCache[k]
    /\ \A k \in DOMAIN memo : k \in DOMAIN memo' /\ memo'[k] = memo[k]

\* The call made by the step returned the entry stored under its key.
ReturnedStored ==
    (last'.op \in ClaimedFrozen /\ last'.exc = "none")
        => IF last'.op \in MatrixFns
           THEN last'.key \in DOMAIN actxCache'
                /\ last'.ret = actxCache'[last'.key]
           ELSE last'.key \in DOMAIN memo' /\ last'.ret = memo'[last'.key]

\* C6 as claimed: entries are write-once, every call returns the stored
\* entry, and every result of the reference-matrix functions and of
\* dt_non_geometric_factors, h_max_from_volume and h_min_from_volume is
\* handed out in an immutable form.
C6_FrozenResults_AsClaimed ==
    [][/\ WriteOnce
       /\ ReturnedStored
       /\ (last'.op \in ClaimedFrozen /\ last'.exc = "none")
            => last'.ret.form \in {"frozen", "float"}]_vars

\* C6, amended: entries are write-once and every call returns the stored
\* entry, so a later call returns what the first returned; the reference
\* matrices are frozen and h_max_from_volume and h_min_from_volume return a
\* float, while dt_non_geometric_factors returns the stored Python list
\* itself.
C6_WriteOnce ==
    [][/\ WriteOnce
       /\ ReturnedStored
       /\ (last'.op \in ClaimedFrozen \ {"dt_non_geometric_factors"}
             /\ last'.exc = "none")
            => last'.ret.form \in {"frozen", "float"}
       /\ (last'.op = "dt_non_geometric_factors" /\ last'.exc = "none")
            => last'.ret.form = "list"]_vars

\* dt_non_geometric_factors answered from its dictionary, with reference
\* matrices and h_max_from_volume stored.
C6_Witness ==
    /\ last.op = "dt_non_geometric_factors"
    /\ last.hit
    /\ last.ret = memo[last.key]
    /\ MemoKey("h_max_from_volume", <<>>) \in DOMAIN memo
    /\ \E k \in DOMAIN actxCache : k.fn = "sbp_lifting_matrix"
    /\ \E k \in DOMAIN actxCache : k.fn = "quadrature_based_mass_matrix"

\* C9 as claimed: every request to surface_quadrature_interpolation_matrix
\* or sbp_lifting_matrix whose face group does not have nfaces times the
\* volume group's element count fails.
C9_FailsOnEveryRequest ==
    (last.op \in {"surface_quadrature_interpolation_matrix",
                  "sbp_lifting_matrix"} /\ ~last.compat)
        => last.exc = "AssertionError"

(***************************************************************************)
(* The operators that apply a reference matrix to a field.  vec is a       *)
(* DOFArray with an entry dtype; the groups are those of the collection's  *)
(* discretizations, one group each.                                        *)
(***************************************************************************)
Field(dtype, i) == [id |-> i, kind |-> "dof", entry_dtype |-> dtype]

Fields == {Field(dtype, i) : dtype \in DTypes, i \in {1, 2}}

GroupCls(tag) == IF tag = DISCR_TAG_BASE THEN "base" ELSE "quad"

\* The element group of the collection's discretization for dd: the volume
\* elements, all their faces, or the boundary faces only.
DiscrGroup(dd) ==
    LET n == as_dofdesc(dd)
    IN IF n.domain = "vol"
       THEN VolGroup(GroupCls(n.tag), MaxOrder, MaxElements)
       ELSE IF n.domain = "all_faces"
       THEN FaceGroup(GroupCls(n.tag), MaxOrder, 3 * MaxElements)
       ELSE FaceGroup(GroupCls(n.tag), MaxOrder, MaxElements)

Applied(d, c, exc, res) == [res |-> res, cache |-> c, exc |-> exc, d |-> d]

Einsum(spec, mat, vec) == [vec |-> vec, mat |-> mat, einsum |-> spec]

quadrature_volume_interpolation(d, c, dq, vec) ==
    LET d1 == discr_from_dd(discr_from_dd(d, StrDD("vol")), dq)
        mat == volume_quadrature_interpolation_matrix(
                   c, DiscrGroup(StrDD("vol")), DiscrGroup(dq))
    IN Applied(d1, mat.cache, "none", Einsum("ij,ej->ei", mat.ret, vec))

map_to_nodal_from_volume(d, c, dq, vec) ==
    LET d1 == discr_from_dd(discr_from_dd(d, StrDD("vol")), dq)
        mat == volume_quadrature_interpolation_matrix(
                   c, DiscrGroup(StrDD("vol")), DiscrGroup(dq))
    IN Applied(d1, mat.cache, "none", Einsum("ji,ej->ei", mat.ret, vec))

quadrature_surface_interpolation(d, c, df, vec) ==
    LET d1 == discr_from_dd(discr_from_dd(d, StrDD("vol")), df)
        mat == surface_quadrature_interpolation_matrix(
                   c, DiscrGroup(StrDD("vol")), DiscrGroup(df),
                   vec.entry_dtype)
    IN IF mat.exc # "none" THEN Applied(d1, mat.cache, mat.exc, NoValue)
       ELSE Applied(d1, mat.cache, "none", Einsum("ij,ej->ei", mat.ret, vec))

map_to_nodal_from_surface(d, c, df, vec) ==
    LET d1 == discr_from_dd(discr_from_dd(d, StrDD("vol")), df)
        mat == surface_quadrature_interpolation_matrix(
                   c, DiscrGroup(StrDD("vol")), DiscrGroup(df),
                   vec.entry_dtype)
    IN IF mat.exc # "none" THEN Applied(d1, mat.cache, mat.exc, NoValue)
       ELSE Applied(d1, mat.cache, "none", Einsum("ji,ej->ei", mat.ret, vec))

quadrature_project(d, c, dd_q, vec) ==
    LET d1 == discr_from_dd(discr_from_dd(d, StrDD("vol")), dd_q)
        mat == quadrature_based_l2_projection_matrix(
                   c, DiscrGroup(StrDD("vol")), DiscrGroup(dd_q))
    IN Applied(d1, mat.cache, "none", Einsum("ij,ej->ei", mat.ret, vec))

\* memoize_in(actx, (_apply_sbp_lift_operator, "face_lift_knl")): the loopy
\* program of the lift, built once per array context.
PrgKey == CacheKey("face_lift_knl", <<>>)

prg(c) ==
    IF Cached(c, PrgKey) THEN c
    ELSE Insert(c, PrgKey, [form |-> "program", val |-> PrgKey])

\* _apply_sbp_lift_operator(dcoll, dd, vec): the lifting matrix is requested
\* with the entry dtype of vec.
apply_sbp_lift_operator(d, c, dd, vec) ==
    LET d1 == discr_from_dd(discr_from_dd(d, ObjDD(DD_VOLUME)), dd)
        ae == area_element(d1, dd)
        c1 == prg(c)
        mat == sbp_lifting_matrix(c1, DiscrGroup(dd),
                                  DiscrGroup(ObjDD(DD_VOLUME)),
                                  vec.entry_dtype)
    IN IF mat.exc # "none" THEN Applied(ae.d, mat.cache, mat.exc, NoValue)
       ELSE Applied(ae.d, mat.cache, "none",
                    [vec |-> vec,
                     mat |-> mat.ret,
                     jac_surf |-> ae.ret,
                     loopy |-> "face_lift"])

\* sbp_lift_operator(dcoll, *args): (vec) lifts from all faces of the base
\* discretization, (dd, vec) from dd.
sbp_lift_operator(d, c, args) ==
    IF Len(args) = 1
    THEN apply_sbp_lift_operator(
             d, c, ObjDD(DOFDesc("all_faces", DISCR_TAG_BASE)), args[1])
    ELSE IF Len(args) = 2
    THEN apply_sbp_lift_operator(d, c, args[1], args[2])
    ELSE Applied(d, c, "TypeError", NoValue)

(***************************************************************************)
(* Two runs of the same calls on the same collection, each on its own      *)
(* array context, that differ only in the field passed.                    *)
(***************************************************************************)
PairCall(op, a, b, vecA, vecB) ==
    /\ actxCache' = a.cache
    /\ actxCache2' = b.cache
    /\ discrs' = a.d.discrs
    /\ memo' = a.d.memo
    /\ last' = [op |-> op,
                vecA |-> vecA,
                vecB |-> vecB,
                excA |-> a.exc,
                excB |-> b.exc,
                resA |-> a.res,
                resB |-> b.res]
    /\ UNCHANGED <<mesh, operators, conns, computed, missN, evals>>

DD_QUAD_VOLUME == ObjDD(DOFDesc("vol", DISCR_TAG_QUAD))

DD_QUAD_FACES == ObjDD(DOFDesc("all_faces", DISCR_TAG_QUAD))

PairQuadratureVolumeInterpolation ==
    \E vecA \in Fields, vecB \in Fields :
        PairCall("quadrature_volume_interpolation",
                 quadrature_volume_interpolation(Dcoll, actxCache,
                                                 DD_QUAD_VOLUME, vecA),
                 quadrature_volume_interpolation(Dcoll, actxCache2,
                                                 DD_QUAD_VOLUME, vecB),
                 vecA, vecB)

PairMapToNodalFromVolume ==
    \E vecA \in Fields, vecB \in Fields :
        PairCall("map_to_nodal_from_volume",
                 map_to_nodal_from_volume(Dcoll, actxCache,
                                          DD_QUAD_VOLUME, vecA),
                 map_to_nodal_from_volume(Dcoll, actxCache2,
                                          DD_QUAD_VOLUME, vecB),
                 vecA, vecB)

PairQuadratureSurfaceInterpolation ==
    \E vecA \in Fields, vecB \in Fields :
        PairCall("quadrature_surface_interpolation",
                 quadrature_surface_interpolation(Dcoll, actxCache,
                                                  DD_QUAD_FACES, vecA),
                 quadrature_surface_interpolation(Dcoll, actxCache2,
                                                  DD_QUAD_FACES, vecB),
                 vecA, vecB)

PairMapToNodalFromSurface ==
    \E vecA \in Fields, vecB \in Fields :
        PairCall("map_to_nodal_from_surface",
                 map_to_nodal_from_surface(Dcoll, actxCache,
                                           DD_QUAD_FACES, vecA),
                 map_to_nodal_from_surface(Dcoll, actxCache2,
                                           DD_QUAD_FACES, vecB),
                 vecA, vecB)

PairQuadratureProject ==
    \E vecA \in Fields, vecB \in Fields :
        PairCall("quadrature_project",
                 quadrature_project(Dcoll, actxCache, DD_QUAD_VOLUME, vecA),
                 quadrature_project(Dcoll, actxCache2, DD_QUAD_VOLUME, vecB),
                 vecA, vecB)

PairSbpLiftOperator ==
    \E vecA \in Fields, vecB \in Fields :
        PairCall("sbp_lift_operator",
                 sbp_lift_operator(Dcoll, actxCache, <<vecA>>),
                 sbp_lift_operator(Dcoll, actxCache2, <<vecB>>),
                 vecA, vecB)

NextPair ==
    \/ PairQuadratureVolumeInterpolation
    \/ PairMapToNodalFromVolume
    \/ PairQuadratureSurfaceInterpolation
    \/ PairMapToNodalFromSurface
    \/ PairQuadratureProject
    \/ PairSbpLiftOperator

SpecPair == Init /\ [][NextPair]_vars

\* The reference matrices of the array context's dictionaries.
MatrixKeys(c) == {k \in DOMAIN c : k.fn \in MatrixFns}

\* C7 as claimed: two runs that make the same requests with different field
\* data end with the same stored reference matrices, element type included.
C7_EntryDependsOnKeyOnly ==
    /\ MatrixKeys(actxCache) = MatrixKeys(actxCache2)
    /\ \A k \in MatrixKeys(actxCache) : actxCache[k] = actxCache2[k]

(***************************************************************************)
(* Two evaluations on one array context.  keyed_memoize_in looks the key   *)
(* up, and on a miss runs the body and then stores the result; another     *)
(* evaluation may take its steps between these.  The calls a body makes to *)
(* other memoized functions are taken in one step with it.                 *)
(***************************************************************************)
L2Request(p, m) ==
    [fn |-> "quadrature_based_l2_projection_matrix",
     dtype |-> "float64",
     key |-> L2Key(VolGroup("base", p, m), VolGroup("quad", p, m)),
     grps |-> <<VolGroup("base", p, m), VolGroup("quad", p, m)>>]

LiftRequest(p, m, dtype) ==
    [fn |-> "sbp_lifting_matrix",
     dtype |-> dtype,
     key |-> LiftKey(FaceGroup("base", p, 3 * m), VolGroup("base", p, m)),
     grps |-> <<FaceGroup("base", p, 3 * m), VolGroup("base", p, m)>>]

RaceRequests ==
    {L2Request(p, m) : p \in Orders, m \in Meshes}
    \cup {LiftRequest(p, m, dtype) :
              p \in Orders, m \in Meshes, dtype \in DTypes}

Body(c, req) ==
    IF req.fn = "sbp_lifting_matrix"
    THEN get_ref_sbp_lifting_mat(c, req.grps[1], req.grps[2], req.dtype)
    ELSE get_ref_l2_proj_mat(c, req.grps[1], req.grps[2])

\* try: return dict[key]
Lookup(e) ==
    /\ evals[e].pc = "idle"
    /\ \E req \in RaceRequests :
           evals' = [evals EXCEPT ![e] =
                        IF Cached(actxCache, req.key)
                        THEN [pc |-> "done",
                              ret |-> actxCache[req.key],
                              req |-> req]
                        ELSE [pc |-> "missed", ret |-> NoValue, req |-> req]]
    /\ UNCHANGED <<mesh, operators, conns, discrs, memo, actxCache, computed, missN,
                   actxCache2, last>>

\* except KeyError: result = func(*args)
RunBody(e) ==
    /\ evals[e].pc = "missed"
    /\ LET r == Body(actxCache, evals[e].req)
       IN /\ actxCache' = r.cache
          /\ evals' = [evals EXCEPT ![e] =
                          IF r.exc # "none" THEN Idle
                          ELSE [pc |-> "computed",
                                ret |-> r.ret,
                                req |-> evals[e].req]]
    /\ UNCHANGED <<mesh, operators, conns, discrs, memo, computed, missN, actxCache2, last>>

\* dict[key] = result; return result
Store(e) ==
    /\ evals[e].pc = "computed"
    /\ actxCache' = Insert(actxCache, evals[e].req.key, evals[e].ret)
    /\ evals' = [evals EXCEPT ![e] = [@ EXCEPT !.pc = "done"]]
    /\ UNCHANGED <<mesh, operators, conns, discrs, memo, computed, missN, actxCache2, last>>

\* The caller goes on with the matrix it was given.
Return(e) ==
    /\ evals[e].pc = "done"
    /\ evals' = [evals EXCEPT ![e] = Idle]
    /\ last' = [op |-> evals[e].req.fn,
                key |-> evals[e].req.key,
                ret |-> evals[e].ret]
    /\ UNCHANGED <<mesh, operators, conns, discrs, memo, actxCache, computed, missN,
                   actxCache2>>

NextRace ==
    \E e \in Evaluations :
        \/ Lookup(e)
        \/ RunBody(e)
        \/ Store(e)
        \/ Return(e)

SpecRace == Init /\ [][NextRace]_vars

\* C8 as claimed: whatever the interleaving, an evaluation that has its
\* matrix for a key holds the entry the dictionary has for that key, so all
\* readers of a key see one and the same complete entry.
C8_RaceLeavesOneEntry ==
    \A e \in Evaluations :
        evals[e].pc = "done"
            => /\ Cached(actxCache, evals[e].req.key)
               /\ actxCache[evals[e].req.key] = evals[e].ret

(***************************************************************************)
(* The inverse mass operator.                                              *)
(***************************************************************************)
RejectReason ==
    "Cannot compute inverse of a mass matrix mapping between different element groups; inverse is not guaranteed to be well-defined"

ErrorValue(msg) == [form |-> "error", msg |-> msg]

RECURSIVE apply_inverse_sbp_mass_operator(_, _, _, _, _)
RECURSIVE InverseMassEntries(_, _, _, _, _, _)

\* The operator with the descriptor test moved after the lookups.
apply_inverse_sbp_mass_operator_late_test(d, c, dd_out, dd_in, vec) ==
    IF vec.kind = "ary"
    THEN InverseMassEntries(d, c, dd_out, dd_in, vec.items, <<>>)
    ELSE LET ae == area_element(discr_from_dd(d, dd_in), dd_in)
         IN IF dd_out # dd_in
            THEN Applied(ae.d, c, "ValueError", ErrorValue(RejectReason))
            ELSE IF vec.kind # "dof"
            THEN Applied(d, c, "AttributeError", NoValue)
            ELSE Applied(ae.d, c, "TypeError", NoValue)

\* obj_array_vectorize: the entries in order; the first exception ends the
\* call.
InverseMassEntries(d, c, dd_out, dd_in, items, done) ==
    IF Len(done) = Len(items)
    THEN Applied(d, c, "none", ObjArray(0, done))
    ELSE LET r == apply_inverse_sbp_mass_operator(
                      d, c, dd_out, dd_in, items[Len(done) + 1])
         IN IF r.exc # "none" THEN r
            ELSE InverseMassEntries(r.d, r.cache, dd_out, dd_in, items,
                                    Append(done, r.res))

\* _apply_inverse_sbp_mass_operator(dcoll, dd_out, dd_in, vec).  The
\* descriptors are compared as given.  With equal descriptors,
\* vec.array_context is read (a number has none), the discretization and the
\* area elements are obtained, and the first group's request
\* quadrature_based_inverse_mass_matrix(actx, element_group=grp) does not
\* match the function's parameters.
apply_inverse_sbp_mass_operator(d, c, dd_out, dd_in, vec) ==
    IF vec.kind = "ary"
    THEN InverseMassEntries(d, c, dd_out, dd_in, vec.items, <<>>)
    ELSE IF dd_out # dd_in
    THEN Applied(d, c, "ValueError", ErrorValue(RejectReason))
    ELSE IF vec.kind # "dof"
    THEN Applied(d, c, "AttributeError", NoValue)
    ELSE LET ae == area_element(discr_from_dd(d, dd_in), dd_in)
         IN Applied(ae.d, c, "TypeError", NoValue)

inverse_sbp_mass(d, c, vec) ==
    apply_inverse_sbp_mass_operator(d, c, ObjDD(DD_VOLUME), ObjDD(DD_VOLUME),
                                    vec)

InvMassCall(op, r, dd_out, dd_in, vec) ==
    /\ discrs' = r.d.discrs
    /\ memo' = r.d.memo
    /\ actxCache' = r.cache
    /\ last' = [vec |-> vec,
                res |-> r.res,
                op |-> op,
                exc |-> r.exc,
                dd_out |-> dd_out,
                dd_in |-> dd_in]
    /\ UNCHANGED <<mesh, operators, conns, computed, missN, actxCache2, evals>>

ApplyInverseSbpMassOperator ==
    \E dd_out \in RawDDs, dd_in \in RawDDs, vec \in Vecs :
        InvMassCall("_apply_inverse_sbp_mass_operator",
                    apply_inverse_sbp_mass_operator(Dcoll, actxCache,
                                                    dd_out, dd_in, vec),
                    dd_out, dd_in, vec)

InverseSbpMass ==
    \E vec \in Vecs :
        InvMassCall("inverse_sbp_mass",
                    inverse_sbp_mass(Dcoll, actxCache, vec),
                    ObjDD(DD_VOLUME), ObjDD(DD_VOLUME), vec)

NextInvMass ==
    \/ ApplyInverseSbpMassOperator
    \/ InverseSbpMass

SpecInvMass == Init /\ [][NextInvMass]_vars

\* A DOFArray, or a non-empty object array of DOFArrays.
DofOrArrayOfDofs(vec) ==
    \/ vec.kind = "dof"
    \/ /\ vec.kind = "ary"
       /\ vec.items # <<>>
       /\ \A i \in DOMAIN vec.items : vec.items[i].kind = "dof"

\* C10: a call of _apply_inverse_sbp_mass_operator with dd_out != dd_in on a
\* DOFArray or a non-empty object array of DOFArrays raises ValueError with
\* its reason, and leaves the collection's discretizations and memoized
\* values and the array context's dictionaries as they were.
C10_MismatchRejectedFirst ==
    [][(/\ last'.op = "_apply_inverse_sbp_mass_operator"
        /\ last'.dd_out # last'.dd_in
        /\ DofOrArrayOfDofs(last'.vec))
       => /\ last'.exc = "ValueError"
          /\ last'.res = ErrorValue(RejectReason)
          /\ RejectReason # ""
          /\ UNCHANGED <<discrs, memo, actxCache, actxCache2, conns>>]_vars

\* A mismatched call on an array of two DOFArrays was rejected when the
\* collection already had a discretization and its area elements.
C10_Witness ==
    /\ last.op = "_apply_inverse_sbp_mass_operator"
    /\ last.dd_out # last.dd_in
    /\ last.vec.kind = "ary"
    /\ Len(last.vec.items) = 2
    /\ DofOrArrayOfDofs(last.vec)
    /\ last.exc = "ValueError"
    /\ discrs # {}
    /\ memo # <<>>

\* C11 as claimed: inverse_sbp_mass on a DOFArray of the base volume
\* discretization completes without error and returns the DOFArray obtained
\* from the cached inverse reference mass matrix and the area element.
C11_InverseSbpMassCompletes ==
    (last.op = "inverse_sbp_mass" /\ last.vec.kind = "dof")
        => /\ last.exc = "none"
           /\ last.res.kind = "dof"

(***************************************************************************)
(* The numerical fluxes of the Burgers and wave operators.                 *)
(***************************************************************************)
MaxOperators == 2

FluxTypes == {"central", "lf", "upwind", "Central", "LF", "godunov"}

\* str.lower()
lower(s) ==
    CASE s = "Central" -> "central"
      [] s = "LF" -> "lf"
      [] OTHER -> s

MeshDims == {1, 2}

DD_INT_FACES == ObjDD(DOFDesc("int_faces", DISCR_TAG_BASE))

\* dcoll.normal(dd): memoized on the collection by descriptor, frozen.
dcoll_normal(d, dd) ==
    LET k == MemoKey("normal", <<as_dofdesc(dd)>>)
        d1 == discr_from_dd(d, dd)
        v == Frozen("float64", k, <<>>)
    IN IF Cached(d.memo, k) THEN DReturned(k, d, d.memo[k], <<>>)
       ELSE DReturned(k, [d1 EXCEPT !.memo = Insert(@, k, v)], v, <<k>>)

NumFlux(kind, operands) == [type |-> kind, form |-> "flux", of |-> operands]

FluxReturned(d, calls, v) ==
    [calls |-> calls,
     res |-> v,
     exc |-> "none",
     d |-> d,
     named |-> ""]

FluxRaised(d, calls, e, named) ==
    [calls |-> calls,
     res |-> NoValue,
     exc |-> e,
     d |-> d,
     named |-> named]

\* The flux with the final raise replaced by the central flux.
burgers_numerical_flux_fallback(d, num_flux_type, u_tpair, max_wavespeed) ==
    LET n == dcoll_normal(d, u_tpair.dd)
        mw == project(StrDD("vol"), u_tpair.dd, max_wavespeed)
        ft == lower(num_flux_type)
    IN IF ft = "lf"
       THEN FluxReturned(n.d, mw.calls, NumFlux("lf", <<n.ret, mw.res>>))
       ELSE FluxReturned(n.d, mw.calls, NumFlux("central", <<n.ret>>))

\* burgers_numerical_flux(actx, dcoll, num_flux_type, u_tpair,
\* max_wavespeed): the normal and the projected wave speed are obtained
\* first, the flux type is lowered and then tested.
burgers_numerical_flux(d, num_flux_type, u_tpair, max_wavespeed) ==
    LET n == dcoll_normal(d, u_tpair.dd)
        mw == project(StrDD("vol"), u_tpair.dd, max_wavespeed)
        ft == lower(num_flux_type)
    IN IF ft = "central"
       THEN FluxReturned(n.d, mw.calls, NumFlux("central", <<n.ret>>))
       ELSE IF ft = "lf"
       THEN FluxReturned(n.d, mw.calls, NumFlux("lf", <<n.ret, mw.res>>))
       ELSE FluxRaised(n.d, mw.calls, "NotImplementedError", ft)

\* InviscidBurgers.flux_types
flux_types == {"central", "lf"}

\* InviscidBurgers.__init__(actx, dcoll, flux_type)
InviscidBurgers(d, flux_type, dim) ==
    IF flux_type \notin flux_types
    THEN FluxRaised(d, <<>>, "NotImplementedError", flux_type)
    ELSE IF dim # 1
    THEN FluxRaised(d, <<>>, "NotImplementedError", "dim")
    ELSE FluxReturned(d, <<>>, [cls |-> "InviscidBurgers",
                                flux_type |-> flux_type, sign |-> 1])

\* WeakWaveOperator.__init__(dcoll, c, flux_type=...): any flux_type is
\* kept.
WeakWaveOperator(d, c, flux_type) ==
    FluxReturned(d, <<>>, [cls |-> "WeakWaveOperator",
                           flux_type |-> flux_type,
                           sign |-> IF c > 0 THEN 1 ELSE -1])

\* VariableCoefficientWeakWaveOperator.__init__(dcoll, c, flux_type=...)
VariableCoefficientWeakWaveOperator(d, c, flux_type) ==
    IF c.kind # "dof"
    THEN FluxRaised(d, <<>>, "AttributeError", "array_context")
    ELSE FluxReturned(d, <<>>,
                      [cls |-> "VariableCoefficientWeakWaveOperator",
                       flux_type |-> flux_type, sign |-> 0])

\* flux(self, wtpair) of both wave operators: the normal is obtained, the
\* central flux formed, and self.flux_type tested as it was given.
flux(d, self, wtpair) ==
    LET n == dcoll_normal(d, wtpair.dd)
    IN IF self.flux_type = "central"
       THEN FluxReturned(n.d, <<>>, NumFlux("central", <<n.ret>>))
       ELSE IF self.flux_type = "upwind"
       THEN FluxReturned(n.d, <<>>, NumFlux("upwind", <<n.ret>>))
       ELSE FluxRaised(n.d, <<>>, "ValueError", self.flux_type)

TracePair(dd, int, ext) == [dd |-> dd, int |-> int, ext |-> ext]

FluxCall(op, flux_type, r, made) ==
    /\ conns' = conns \cup Range(r.calls)
    /\ discrs' = r.d.discrs
                 \cup {r.calls[i].src : i \in DOMAIN r.calls}
                 \cup {r.calls[i].tgt : i \in DOMAIN r.calls}
    /\ memo' = r.d.memo
    /\ operators' = operators \cup made
    /\ last' = [res |-> r.res,
                op |-> op,
                exc |-> r.exc,
                named |-> r.named,
                flux_type |-> flux_type]
    /\ UNCHANGED <<mesh, actxCache, computed, missN, actxCache2, evals>>

Constructed(r) == IF r.exc = "none" THEN {r.res} ELSE {}

InviscidBurgersInit ==
    /\ Cardinality(operators) < MaxOperators
    /\ \E flux_type \in FluxTypes, dim \in MeshDims :
           LET r == InviscidBurgers(Dcoll, flux_type, dim)
           IN FluxCall("InviscidBurgers", flux_type, r, Constructed(r))

WeakWaveOperatorInit ==
    /\ Cardinality(operators) < MaxOperators
    /\ \E flux_type \in FluxTypes, c \in {-1, 1} :
           LET r == WeakWaveOperator(Dcoll, c, flux_type)
           IN FluxCall("WeakWaveOperator", flux_type, r, Constructed(r))

VariableCoefficientWeakWaveOperatorInit ==
    /\ Cardinality(operators) < MaxOperators
    /\ \E flux_type \in FluxTypes, c \in Leaves :
           LET r == VariableCoefficientWeakWaveOperator(Dcoll, c, flux_type)
           IN FluxCall("VariableCoefficientWeakWaveOperator", flux_type, r,
                       Constructed(r))

\* An operator goes out of use.
DropOperator ==
    /\ \E o \in operators : operators' = operators \ {o}
    /\ UNCHANGED <<mesh, conns, discrs, memo, actxCache, computed, missN,
                   actxCache2, evals, last>>

BurgersNumericalFlux ==
    \E num_flux_type \in FluxTypes, max_wavespeed \in Leaves :
        FluxCall("burgers_numerical_flux", num_flux_type,
                 burgers_numerical_flux(
                     Dcoll, num_flux_type,
                     TracePair(DD_INT_FACES, DOFArray(1), DOFArray(1)),
                     max_wavespeed),
                 {})

WaveFlux ==
    \E self \in operators :
        /\ self.cls # "InviscidBurgers"
        /\ FluxCall("flux", self.flux_type,
                    flux(Dcoll, self,
                         TracePair(DD_INT_FACES, DOFArray(1), DOFArray(1))),
                    {})

NextFlux ==
    \/ InviscidBurgersInit
    \/ WeakWaveOperatorInit
    \/ VariableCoefficientWeakWaveOperatorInit
    \/ DropOperator
    \/ BurgersNumericalFlux
    \/ WaveFlux

SpecFlux == Init /\ [][NextFlux]_vars

\* C12 as claimed: for every flux-type string outside the supported set the
\* Burgers constructor, burgers_numerical_flux and the flux of the wave
\* operators raise a not-implemented error that carries that string.
C12_NotImplemented_AsClaimed ==
    /\ (last.op \in {"InviscidBurgers", "burgers_numerical_flux"}
          /\ last.flux_type \notin flux_types)
         => /\ last.exc = "NotImplementedError"
            /\ last.named = last.flux_type
    /\ (last.op = "flux" /\ last.flux_type \notin {"central", "upwind"})
         => /\ last.exc = "NotImplementedError"
            /\ last.named = last.flux_type

\* C12, amended: an unknown flux type never yields a flux or an operator of
\* the Burgers model.  The Burgers constructor raises NotImplementedError
\* naming the string it was given; burgers_numerical_flux lowers the string
\* first, accepts it when the lowered string is supported and otherwise
\* raises NotImplementedError naming the lowered string; the flux of the
\* wave operators raises ValueError naming the string.
C12_UnknownFluxRejected ==
    /\ (last.op = "InviscidBurgers" /\ last.flux_type \notin flux_types)
         => /\ last.exc = "NotImplementedError"
            /\ last.named = last.flux_type
            /\ last.res = NoValue
    /\ \A o \in operators :
         o.cls = "InviscidBurgers" => o.flux_type \in flux_types
    /\ (last.op = "burgers_numerical_flux"
          /\ lower(last.flux_type) \notin flux_types)
         => /\ last.exc = "NotImplementedError"
            /\ last.named = lower(last.flux_type)
            /\ last.res = NoValue
    /\ (last.op = "burgers_numerical_flux"
          /\ lower(last.flux_type) \in flux_types)
         => /\ last.exc = "none"
            /\ last.res.type = lower(last.flux_type)
    /\ (last.op = "flux" /\ last.flux_type \notin {"central", "upwind"})
         => /\ last.exc = "ValueError"
            /\ last.named = last.flux_type
            /\ last.res = NoValue

\* burgers_numerical_flux rejected an unknown flux type while a wave
\* operator constructed with an unknown flux type was in use.
C12_Witness ==
    /\ last.op = "burgers_numerical_flux"
    /\ last.flux_type = "godunov"
    /\ last.exc = "NotImplementedError"
    /\ \E o \in operators :
         o.cls = "WeakWaveOperator" /\ o.flux_type = "godunov"

(***************************************************************************)
(* The timestep helpers on the collections of all meshes.                  *)
(***************************************************************************)
InitDt ==
    /\ conns = {}
    /\ discrs = {}
    /\ memo = <<>>
    /\ actxCache = <<>>
    /\ computed = <<>>
    /\ missN = {}
    /\ actxCache2 = <<>>
    /\ evals = [e \in Evaluations |-> Idle]
    /\ operators = {}
    /\ \E dim \in 1..3 : mesh \in MeshChoices(dim)
    /\ last = NoCall

\* The values passed for dd: none, the string naming the volume, and the
\* descriptors of the volume.
DtDDs == {NoneDD, StrDD("vol"), ObjDD(DD_VOLUME), DD_QUAD_VOLUME}

DtGeometricFactors ==
    \E dd \in DtDDs :
        LET r == dt_geometric_factors(Dcoll, dd)
        IN /\ memo' = r.d.memo
           /\ discrs' = r.d.discrs
           /\ last' = [dd |-> dd,
                       op |-> "dt_geometric_factors",
                       exc |-> r.exc,
                       key |-> r.key,
                       ret |-> r.ret,
                       hit |-> FALSE]
           /\ UNCHANGED <<mesh, operators, conns, actxCache, computed, missN,
                          actxCache2, evals>>

NextDt ==
    \/ DtGeometricFactors
    \/ CharacteristicLengthscales
    \/ HMaxFromVolume

SpecDt == InitDt /\ [][NextDt]_vars

\* C13: when at least one element group of the discretization is not a
\* simplex group, at whatever position, dt_geometric_factors raises
\* NotImplementedError, returns no value, and has integrated no cell volume
\* or face area (no area element was taken).
C13_NonSimplexRejected ==
    [][(/\ last'.op = "dt_geometric_factors"
        /\ \E g \in DOMAIN mesh.groups : mesh.groups[g].type # "simplex")
       => /\ last'.exc = "NotImplementedError"
          /\ last'.ret = NoValue
          /\ memo' = memo]_vars

\* Rejected for a non-simplex group that follows a simplex group, on a
\* collection whose area elements had been computed by another call.
C13_Witness ==
    /\ last.op = "dt_geometric_factors"
    /\ last.exc = "NotImplementedError"
    /\ Len(mesh.groups) = 2
    /\ mesh.groups[1].type = "simplex"
    /\ mesh.groups[2].type = "tensor"
    /\ memo # <<>>

\* C14 as claimed: a call with the string naming the volume, or with no dd,
\* does what the call with the base volume DOFDesc does from the same
\* state, in every dimension.
C14_ConvertibleDescriptor ==
    [][(/\ last'.op = "dt_geometric_factors"
        /\ last'.dd \in {StrDD("vol"), NoneDD})
       => LET r == dt_geometric_factors(Dcoll, ObjDD(DD_VOLUME))
          IN /\ last'.exc = r.exc
             /\ last'.ret = r.ret
             /\ memo' = r.d.memo
             /\ discrs' = r.d.discrs]_vars

\* The sum of the face areas of a cell.
FaceSum(cell) == SumTo([f \in DOMAIN cell.faces |-> Abs(cell.faces[f])],
                       Len(cell.faces))

\* The result has one array per element group, one row per cell and the
\* same value at all nodes of a cell.
WellShaped(data) ==
    /\ DOMAIN data = DOMAIN mesh.groups
    /\ \A g \in DOMAIN data :
         /\ DOMAIN data[g] = DOMAIN mesh.groups[g].cells
         /\ \A e \in DOMAIN data[g] :
              /\ DOMAIN data[g][e] = 1..nunit_dofs(mesh.dim)
              /\ \A i, j \in DOMAIN data[g][e] : data[g][e][i] = data[g][e][j]

\* The value at every node of every cell is d V / (sum of F_i).
IsInradius(data) ==
    \A g \in DOMAIN data : \A e \in DOMAIN data[g] : \A i \in DOMAIN data[g][e] :
        LET cell == mesh.groups[g].cells[e]
        IN data[g][e][i].n * FaceSum(cell)
               = mesh.dim * Abs(cell.vol) * data[g][e][i].d

FACE_RESTR_INTERIOR == "int_faces"

BTAG_ALL == "bdry"

NoTag == "none"

QTags == {NoTag, DISCR_TAG_BASE, DISCR_TAG_QUAD}

\* DOFDesc(domain_tag, discretization_tag): no tag means the base tag.
MakeDOFDesc(domain, qtag) ==
    DOFDesc(domain, IF qtag = NoTag THEN DISCR_TAG_BASE ELSE qtag)

with_qtag(dd, qtag) == MakeDOFDesc(dd.domain, qtag)

uses_quadrature(dd) == dd.tag # DISCR_TAG_BASE

is_trace(dd) == dd.domain # "vol"

SymVar(name, dd) == [dd |-> dd, name |-> name, node |-> "var"]

OperatorBinding(op, field) == [op |-> op,
                               node |-> "binding",
                               field |-> field]

cse(expr) == [node |-> "cse", child |-> expr]

\* project(dd_in, dd_out)(expr): the expression itself between equal
\* descriptors, otherwise the projection bound to it.
sym_project(dd_in, dd_out, expr) ==
    IF as_dofdesc(dd_in) = as_dofdesc(dd_out) THEN expr
    ELSE OperatorBinding([op |-> "project",
                          dd_out |-> as_dofdesc(dd_out),
                          dd_in |-> as_dofdesc(dd_in)], expr)

\* OppositeInteriorFaceSwap()(expr)
OppositeInteriorFaceSwap(expr) ==
    OperatorBinding([op |-> "swap",
                     dd_out |-> MakeDOFDesc(FACE_RESTR_INTERIOR, NoTag),
                     dd_in |-> MakeDOFDesc(FACE_RESTR_INTERIOR, NoTag)],
                    expr)

SymReturned(v) == [res |-> v, exc |-> "none", reason |-> ""]

SymRaised(e, reason) == [res |-> NoValue, exc |-> e, reason |-> reason]

\* The swap taken after the projection to the quadrature trace.
int_tpair_swap_last(expression, qtag, from_dd) ==
    LET from1 == IF from_dd = NoneDD THEN ObjDD(DD_VOLUME) ELSE from_dd
        trace_dd == MakeDOFDesc(FACE_RESTR_INTERIOR, qtag)
        base == ObjDD(with_qtag(trace_dd, NoTag))
        i == IF from1.dd.domain = trace_dd.domain THEN expression
             ELSE sym_project(from1, base, expression)
        iq == IF uses_quadrature(trace_dd)
              THEN cse(sym_project(base, ObjDD(trace_dd), i)) ELSE i
    IN IF from1.raw # "dd" THEN SymRaised("AttributeError", "")
       ELSE IF uses_quadrature(from1.dd) THEN SymRaised("AssertionError", "")
       ELSE SymReturned(TracePair(trace_dd, iq,
                                  cse(OppositeInteriorFaceSwap(iq))))

\* int_tpair(expression, qtag=None, from_dd=None)
int_tpair(expression, qtag, from_dd) ==
    LET from1 == IF from_dd = NoneDD THEN ObjDD(DD_VOLUME) ELSE from_dd
        trace_dd == MakeDOFDesc(FACE_RESTR_INTERIOR, qtag)
        base == ObjDD(with_qtag(trace_dd, NoTag))
        i == IF from1.dd.domain = trace_dd.domain THEN expression
             ELSE sym_project(from1, base, expression)
        e == cse(OppositeInteriorFaceSwap(i))
    IN IF from1.raw # "dd" THEN SymRaised("AttributeError", "")
       ELSE IF uses_quadrature(from1.dd) THEN SymRaised("AssertionError", "")
       ELSE IF uses_quadrature(trace_dd)
       THEN SymReturned(TracePair(
                trace_dd,
                cse(sym_project(base, ObjDD(trace_dd), i)),
                cse(sym_project(base, ObjDD(trace_dd), e))))
       ELSE SymReturned(TracePair(trace_dd, i, e))

\* bdry_tpair(dd, interior, exterior)
bdry_tpair(dd, interior, exterior) ==
    SymReturned(TracePair(dd, interior, exterior))

\* The interior paired as it was given.
bv_tpair_unprojected(dd, interior, exterior) ==
    SymReturned(TracePair(dd, cse(interior), exterior))

\* bv_tpair(dd, interior, exterior)
bv_tpair(dd, interior, exterior) ==
    SymReturned(TracePair(dd, cse(sym_project(StrDD("vol"), dd, interior)),
                          exterior))

SymDDs ==
    {MakeDOFDesc(domain, qtag) :
         domain \in {"vol", FACE_RESTR_INTERIOR, BTAG_ALL},
         qtag \in {DISCR_TAG_BASE, DISCR_TAG_QUAD}}

SymVars(name) == {SymVar(name, dd) : dd \in SymDDs}

SymCall(op, args, r) ==
    /\ last' = [res |-> r.res,
                op |-> op,
                exc |-> r.exc,
                args |-> args,
                reason |-> r.reason]
    /\ UNCHANGED <<mesh, operators, conns, discrs, memo, actxCache, computed,
                   missN, actxCache2, evals>>

IntTpair ==
    \E expression \in SymVars("u"), qtag \in QTags,
       from_dd \in {NoneDD, StrDD("vol")} \cup {ObjDD(dd) : dd \in SymDDs} :
        SymCall("int_tpair",
                [qtag |-> qtag,
                 expression |-> expression,
                 from_dd |-> from_dd],
                int_tpair(expression, qtag, from_dd))

BdryTpair ==
    \E dd \in SymDDs, interior \in SymVars("u"), exterior \in SymVars("v") :
        SymCall("bdry_tpair",
                [dd |-> dd, interior |-> interior, exterior |-> exterior],
                bdry_tpair(ObjDD(dd), interior, exterior))

BvTpair ==
    \E dd \in SymDDs, interior \in SymVars("u"), exterior \in SymVars("v") :
        SymCall("bv_tpair",
                [dd |-> dd, interior |-> interior, exterior |-> exterior],
                bv_tpair(ObjDD(dd), interior, exterior))

(***************************************************************************)
(* Geometry expressions: the parametrization derivative and the normals.  *)
(***************************************************************************)
MaxAmbientDim == 4

\* dim=None
NoDim == -1

Dims(ambient_dim) == {NoDim} \cup (0..ambient_dim)

MultiVector(data) == [data |-> data, node |-> "multivector"]

\* _SignedFaceOnes(dd)
SignedFaceOnes(dd) ==
    IF is_trace(as_dofdesc(dd))
    THEN SymReturned([dd |-> as_dofdesc(dd), node |-> "signed_face_ones"])
    ELSE SymRaised("AssertionError", "")

forward_metric_derivative_mv(ambient_dim, rst_axis, dd) ==
    MultiVector([dd |-> dd,
                 node |-> "forward_metric_derivative_vector",
                 ambient_dim |-> ambient_dim,
                 rst_axis |-> rst_axis])

\* The product of the metric derivatives taken whatever dim is.
parametrization_derivative_always_product(ambient_dim, dim, dd) ==
    LET dim1 == IF dim = NoDim THEN ambient_dim ELSE dim
    IN SymReturned([node |-> "product",
                    factors |-> [i \in 1..dim1 |->
                        forward_metric_derivative_mv(ambient_dim, i - 1, dd)]])

\* parametrization_derivative(ambient_dim, dim=None, dd=None)
parametrization_derivative(ambient_dim, dim, dd) ==
    LET dim1 == IF dim = NoDim THEN ambient_dim ELSE dim
        ones == SignedFaceOnes(dd)
    IN IF dim1 = 0
       THEN IF ones.exc # "none" THEN ones
            ELSE SymReturned(MultiVector(ones.res))
       ELSE SymReturned([node |-> "product",
                         factors |-> [i \in 1..dim1 |->
                             forward_metric_derivative_mv(ambient_dim, i - 1,
                                                          dd)]])

\* pseudoscalar(ambient_dim, dim=None, dd=None)
pseudoscalar(ambient_dim, dim, dd) ==
    LET dim1 == IF dim = NoDim THEN ambient_dim ELSE dim
        pder == parametrization_derivative(ambient_dim, dim1, dd)
    IN IF pder.exc # "none" THEN pder
       ELSE SymReturned([node |-> "project_max_grade", child |-> pder.res])

\* surface_normal(ambient_dim, dim=None, dd=None): the pseudoscalar over
\* the area element, contracted onto the inverse of its unit pseudoscalar.
surface_normal(ambient_dim, dim, dd) ==
    LET dd1 == ObjDD(as_dofdesc(dd))
        dim1 == IF dim = NoDim THEN ambient_dim - 1 ELSE dim
        ps == pseudoscalar(ambient_dim, dim1, dd1)
    IN IF ps.exc # "none" THEN ps
       ELSE SymReturned(cse([node |-> "surface_normal", pder |-> ps.res]))

\* The normal requested whatever the descriptor is.
mv_normal_any_descriptor(dd, ambient_dim, dim) ==
    LET dd1 == ObjDD(as_dofdesc(dd))
        dim1 == IF dim = NoDim THEN ambient_dim - 1 ELSE dim
        volm_normal == surface_normal(ambient_dim, dim1 + 1, ObjDD(DD_VOLUME))
        pder == pseudoscalar(ambient_dim, dim1, dd1)
    IN IF dim1 = ambient_dim - 1
       THEN surface_normal(ambient_dim, dim1, dd1)
       ELSE IF dim1 # ambient_dim - 2 THEN SymRaised("AssertionError", "")
       ELSE IF volm_normal.exc # "none" THEN volm_normal
       ELSE IF pder.exc # "none" THEN pder
       ELSE SymReturned(cse([node |-> "unit_face_normal",
                             pder |-> pder.res,
                             volm_normal |->
                                 sym_project(ObjDD(DD_VOLUME), dd1,
                                             volm_normal.res)]))

\* mv_normal(dd, ambient_dim, dim=None)
mv_normal(dd, ambient_dim, dim) ==
    LET dd1 == ObjDD(as_dofdesc(dd))
        dim1 == IF dim = NoDim THEN ambient_dim - 1 ELSE dim
        volm_normal == surface_normal(ambient_dim, dim1 + 1, ObjDD(DD_VOLUME))
        pder == pseudoscalar(ambient_dim, dim1, dd1)
    IN IF ~is_trace(dd1.dd)
       THEN SymRaised("ValueError", "may only request normals on boundaries")
       ELSE IF dim1 = ambient_dim - 1
       THEN surface_normal(ambient_dim, dim1, dd1)
       ELSE IF dim1 # ambient_dim - 2 THEN SymRaised("AssertionError", "")
       ELSE IF volm_normal.exc # "none" THEN volm_normal
       ELSE IF pder.exc # "none" THEN pder
       ELSE SymReturned(cse([node |-> "unit_face_normal",
                             pder |-> pder.res,
                             volm_normal |->
                                 sym_project(ObjDD(DD_VOLUME), dd1,
                                             volm_normal.res)]))

\* normal(dd, ambient_dim, dim=None)
normal(dd, ambient_dim, dim) ==
    LET mv == mv_normal(dd, ambient_dim, dim)
    IN IF mv.exc # "none" THEN mv
       ELSE SymReturned([node |-> "as_vector", child |-> mv.res])

\* The face numbers of an element of a 1D mesh, in the order of
\* face_vertex_indices.
PointFaces == 0..1

Sign(x) == IF x < 0 THEN -1 ELSE IF x > 0 THEN 1 ELSE 0

\* The values an expression over point faces evaluates to, by face number;
\* NoValue for an expression that is not one.
RECURSIVE FaceValues(_)
FaceValues(expr) ==
    IF expr.node = "signed_face_ones"
    THEN [face \in PointFaces |-> IF face % 2 = 0 THEN 1 ELSE -1]
    ELSE IF expr.node = "multivector" THEN FaceValues(expr.data)
    ELSE IF expr.node \in {"project_max_grade", "cse", "as_vector"}
    THEN FaceValues(expr.child)
    ELSE IF expr.node = "surface_normal"
    THEN LET pder == FaceValues(expr.pder)
         IN IF pder = NoValue THEN NoValue
            ELSE [face \in PointFaces |-> Sign(pder[face])]
    ELSE NoValue

GeometryDDs == {StrDD("vol"), StrDD(BTAG_ALL)} \cup {ObjDD(dd) : dd \in SymDDs}

GeometryCall(op, args, r) ==
    /\ last' = [res |-> r.res,
                op |-> op,
                exc |-> r.exc,
                args |-> args,
                reason |-> r.reason,
                values |-> IF r.exc = "none" THEN FaceValues(r.res)
                           ELSE NoValue]
    /\ UNCHANGED <<mesh, operators, conns, discrs, memo, actxCache, computed,
                   missN, actxCache2, evals>>

ParametrizationDerivative ==
    \E ambient_dim \in 1..MaxAmbientDim, dd \in GeometryDDs :
        \E dim \in Dims(ambient_dim) :
            GeometryCall("parametrization_derivative",
                         [dd |-> dd, dim |-> dim, ambient_dim |-> ambient_dim],
                         parametrization_derivative(ambient_dim, dim, dd))

MvNormal ==
    \E ambient_dim \in 1..MaxAmbientDim, dd \in GeometryDDs :
        \E dim \in Dims(ambient_dim) :
            GeometryCall("mv_normal",
                         [dd |-> dd, dim |-> dim, ambient_dim |-> ambient_dim],
                         mv_normal(dd, ambient_dim, dim))

Normal ==
    \E ambient_dim \in 1..MaxAmbientDim, dd \in GeometryDDs :
        \E dim \in Dims(ambient_dim) :
            GeometryCall("normal",
                         [dd |-> dd, dim |-> dim, ambient_dim |-> ambient_dim],
                         normal(dd, ambient_dim, dim))

(***************************************************************************)
(* Metric derivatives, fundamental forms and curvature.                    *)
(***************************************************************************)
\* "%dD surfaces not supported" % dim
Digits == <<"0", "1", "2", "3", "4", "5", "6", "7", "8", "9">>

SurfacesNotSupported(dim) == Digits[dim + 1] \o "D surfaces not supported"

\* inverse_metric_derivative(rst_axis, xyz_axis, ambient_dim, dim=None,
\* dd=None)
inverse_metric_derivative(rst_axis, xyz_axis, ambient_dim, dim, dd) ==
    LET dim1 == IF dim = NoDim THEN ambient_dim ELSE dim
    IN IF dim1 # ambient_dim
       THEN SymRaised("ValueError",
                "not clear what inverse_metric_derivative means if the derivative matrix is not square")
       ELSE SymReturned(cse([dd |-> dd,
                             node |-> "inverse_metric_derivative",
                             ambient_dim |-> ambient_dim,
                             rst_axis |-> rst_axis,
                             xyz_axis |-> xyz_axis]))

\* inverse_metric_derivative_mat(ambient_dim, dim=None, dd=None): the
\* entries are built row by row; the first one that raises ends the call.
inverse_metric_derivative_mat(ambient_dim, dim, dd) ==
    LET dim1 == IF dim = NoDim THEN ambient_dim ELSE dim
        first == inverse_metric_derivative(0, 0, ambient_dim, dim1, dd)
    IN IF dim1 > 0 /\ first.exc # "none" THEN first
       ELSE SymReturned([dd |-> dd,
                         dim |-> dim1,
                         node |-> "inverse_metric_derivative_mat",
                         ambient_dim |-> ambient_dim])

\* first_fundamental_form(ambient_dim, dim=None, dd=None)
first_fundamental_form(ambient_dim, dim, dd) ==
    LET dim1 == IF dim = NoDim THEN ambient_dim - 1 ELSE dim
    IN SymReturned(cse([dd |-> dd,
                        dim |-> dim1,
                        node |-> "form1_mat",
                        ambient_dim |-> ambient_dim]))

\* Any surface dimension inverted by the formula for two.
inverse_first_fundamental_form_any_dim(ambient_dim, dim, dd) ==
    LET dim1 == IF dim = NoDim THEN ambient_dim - 1 ELSE dim
        inv_mder == inverse_metric_derivative_mat(ambient_dim, dim1, dd)
        form1 == first_fundamental_form(ambient_dim, dim1, dd)
    IN IF ambient_dim = dim1
       THEN IF inv_mder.exc # "none" THEN inv_mder
            ELSE SymReturned(cse([of |-> inv_mder.res,
                                  node |-> "inv_form1_mat",
                                  how |-> "inverse_metric"]))
       ELSE SymReturned(cse([of |-> form1.res,
                             node |-> "inv_form1_mat",
                             how |-> IF dim1 = 1 THEN "reciprocal"
                                     ELSE "adjugate"]))

\* inverse_first_fundamental_form(ambient_dim, dim=None, dd=None)
inverse_first_fundamental_form(ambient_dim, dim, dd) ==
    LET dim1 == IF dim = NoDim THEN ambient_dim - 1 ELSE dim
        inv_mder == inverse_metric_derivative_mat(ambient_dim, dim1, dd)
        form1 == first_fundamental_form(ambient_dim, dim1, dd)
    IN IF ambient_dim = dim1
       THEN IF inv_mder.exc # "none" THEN inv_mder
            ELSE SymReturned(cse([of |-> inv_mder.res,
                                  node |-> "inv_form1_mat",
                                  how |-> "inverse_metric"]))
       ELSE IF dim1 = 1
       THEN SymReturned(cse([of |-> form1.res,
                             node |-> "inv_form1_mat",
                             how |-> "reciprocal"]))
       ELSE IF dim1 = 2
       THEN SymReturned(cse([of |-> form1.res,
                             node |-> "inv_form1_mat",
                             how |-> "adjugate"]))
       ELSE SymRaised("ValueError", SurfacesNotSupported(dim1))

\* second_fundamental_form(ambient_dim, dim=None, dd=None): the surface
\* normal is built and turned into a vector before dim is tested; as_vector
\* raises ValueError for a multivector that is not of grade one, and the
\* normal has grade ambient_dim - dim.
second_fundamental_form(ambient_dim, dim, dd) ==
    LET dim1 == IF dim = NoDim THEN ambient_dim - 1 ELSE dim
        nrm == surface_normal(ambient_dim, dim1, dd)
    IN IF nrm.exc # "none" THEN nrm
       ELSE IF ambient_dim - dim1 # 1
       THEN SymRaised("ValueError",
                      "multivector is not a purely grade-1 multivector")
       ELSE IF dim1 \notin {1, 2}
       THEN SymRaised("ValueError", SurfacesNotSupported(dim1))
       ELSE SymReturned(cse([dd |-> dd,
                             dim |-> dim1,
                             node |-> "form2_mat",
                             normal |-> [node |-> "as_vector",
                                         child |-> nrm.res]]))

\* shape_operator(ambient_dim, dim=None, dd=None)
shape_operator(ambient_dim, dim, dd) ==
    LET dim1 == IF dim = NoDim THEN ambient_dim - 1 ELSE dim
        inv_form1 == inverse_first_fundamental_form(ambient_dim, dim1, dd)
        form2 == second_fundamental_form(ambient_dim, dim1, dd)
    IN IF inv_form1.exc # "none" THEN inv_form1
       ELSE IF form2.exc # "none" THEN form2
       ELSE SymReturned(cse([node |-> "shape_operator",
                             inv_form1 |-> inv_form1.res,
                             form2 |-> form2.res]))

\* 0.0
Zero == [node |-> "float", value |-> 0]

\* The shape operator built whatever the dimensions are.
summed_curvature_always_built(ambient_dim, dim, dd) ==
    LET dim1 == IF dim = NoDim THEN ambient_dim - 1 ELSE dim
        sop == shape_operator(ambient_dim, dim1, dd)
    IN IF sop.exc # "none" THEN sop
       ELSE SymReturned(cse([node |-> "trace", child |-> sop.res]))

\* summed_curvature(ambient_dim, dim=None, dd=None)
summed_curvature(ambient_dim, dim, dd) ==
    LET dim1 == IF dim = NoDim THEN ambient_dim - 1 ELSE dim
        sop == shape_operator(ambient_dim, dim1, dd)
    IN IF ambient_dim = 1 THEN SymReturned(Zero)
       ELSE IF ambient_dim = dim1 THEN SymReturned(Zero)
       ELSE IF sop.exc # "none" THEN sop
       ELSE SymReturned(cse([node |-> "trace", child |-> sop.res]))

\* mean_curvature(ambient_dim, dim=None, dd=None): 1.0 / (ambient_dim - 1.0)
\* is evaluated first, then summed_curvature, then their product.
mean_curvature(ambient_dim, dim, dd) ==
    LET sc == summed_curvature(ambient_dim, dim, dd)
    IN IF ambient_dim - 1 = 0
       THEN SymRaised("ZeroDivisionError", "float division by zero")
       ELSE IF sc.exc # "none" THEN sc
       ELSE IF sc.res.node = "float" THEN SymReturned(Zero)
       ELSE SymReturned([node |-> "product",
                         factors |-> <<[node |-> "float",
                                        value |-> Frac(1, ambient_dim - 1)],
                                       sc.res>>])

CurvatureDDs ==
    {ObjDD(DD_VOLUME), ObjDD(DOFDesc(BTAG_ALL, DISCR_TAG_BASE)),
     ObjDD(DOFDesc("vol", DISCR_TAG_QUAD))}

InverseMetricDerivative ==
    \E ambient_dim \in 1..MaxAmbientDim, dd \in CurvatureDDs :
        \E dim \in Dims(ambient_dim) :
            GeometryCall("inverse_metric_derivative",
                         [dd |-> dd, dim |-> dim, ambient_dim |-> ambient_dim],
                         inverse_metric_derivative(0, 0, ambient_dim, dim, dd))

InverseFirstFundamentalForm ==
    \E ambient_dim \in 1..MaxAmbientDim, dd \in CurvatureDDs :
        \E dim \in Dims(ambient_dim) :
            GeometryCall("inverse_first_fundamental_form",
                         [dd |-> dd, dim |-> dim, ambient_dim |-> ambient_dim],
                         inverse_first_fundamental_form(ambient_dim, dim, dd))

SecondFundamentalForm ==
    \E ambient_dim \in 1..MaxAmbientDim, dd \in CurvatureDDs :
        \E dim \in Dims(ambient_dim) :
            GeometryCall("second_fundamental_form",
                         [dd |-> dd, dim |-> dim, ambient_dim |-> ambient_dim],
                         second_fundamental_form(ambient_dim, dim, dd))

SummedCurvature ==
    \E ambient_dim \in 1..MaxAmbientDim, dd \in CurvatureDDs :
        \E dim \in Dims(ambient_dim) :
            GeometryCall("summed_curvature",
                         [dd |-> dd, dim |-> dim, ambient_dim |-> ambient_dim],
                         summed_curvature(ambient_dim, dim, dd))

MeanCurvature ==
    \E ambient_dim \in 1..MaxAmbientDim, dd \in CurvatureDDs :
        \E dim \in Dims(ambient_dim) :
            GeometryCall("mean_curvature",
                         [dd |-> dd, dim |-> dim, ambient_dim |-> ambient_dim],
                         mean_curvature(ambient_dim, dim, dd))

NextCurvature ==
    \/ InverseMetricDerivative
    \/ InverseFirstFundamentalForm
    \/ SecondFundamentalForm
    \/ SummedCurvature
    \/ MeanCurvature

SpecCurvature == Init /\ [][NextCurvature]_vars

(***************************************************************************)
(* Expressions that carry a descriptor (HasDOFDesc).                       *)
(***************************************************************************)
MaxAxis == 1

Ones(dd) == [dd |-> dd, node |-> "ones"]

NodeCoordinateComponent(axis, dd) ==
    [dd |-> dd,
     node |-> "node_coordinate_component",
     axis |-> axis]

\* __getinitargs__ of the classes with a descriptor.
getinitargs(self) ==
    CASE self.node = "var" -> <<self.name, self.dd>>
      [] self.node = "node_coordinate_component" -> <<self.axis, self.dd>>
      [] OTHER -> <<self.dd>>

\* type(self)(*args)
Construct(node, args) ==
    CASE node = "var" -> SymVar(args[1], args[2])
      [] node = "node_coordinate_component" ->
             NodeCoordinateComponent(args[1], args[2])
      [] node = "signed_face_ones" ->
             [dd |-> args[1], node |-> "signed_face_ones"]
      [] OTHER -> Ones(args[1])

\* HasDOFDesc.with_dd(dd): the copy is built from the initargs of self; dd
\* is not used.
with_dd(self, dd) == SymReturned(Construct(self.node, getinitargs(self)))

DescribedExprs ==
    {SymVar("u", dd) : dd \in SymDDs}
    \cup {Ones(dd) : dd \in SymDDs}
    \cup {NodeCoordinateComponent(axis, dd) :
              axis \in 0..MaxAxis, dd \in SymDDs}
    \cup {[dd |-> dd, node |-> "signed_face_ones"] :
              dd \in {d \in SymDDs : is_trace(d)}}

WithDd ==
    \E self \in DescribedExprs, dd \in SymDDs :
        SymCall("with_dd", [dd |-> dd, self |-> self], with_dd(self, dd))

(***************************************************************************)
(* forward_metric_nth_derivative.  ref_axes is an integer, a tuple of       *)
(* (axis, count) pairs, or something else (a list).                         *)
(***************************************************************************)
MaxDerivatives == 2

IntAxes(i) == [kind |-> "int", i |-> i]

TupleAxes(items) == [items |-> items, kind |-> "tuple"]

ListAxes(items) == [items |-> items, kind |-> "list"]

AxisPairs == {<<axis, n>> : axis \in 0..MaxAxis, n \in 1..MaxDerivatives}

PairSeqs == {<<>>} \cup {<<a>> : a \in AxisPairs}
            \cup {<<a, b>> : a \in AxisPairs, b \in AxisPairs}

RefAxes ==
    {IntAxes(i) : i \in 0..MaxAxis}
    \cup {TupleAxes(items) : items \in PairSeqs}
    \cup {ListAxes(<<a>>) : a \in AxisPairs}

\* The order of Python tuples.
PairLeq(a, b) == a[1] < b[1] \/ (a[1] = b[1] /\ a[2] <= b[2])

\* tuple(sorted(ref_axes)) == ref_axes
is_sorted(items) ==
    \A i \in DOMAIN items : \A j \in DOMAIN items :
        i < j => PairLeq(items[i], items[j])

\* len(dict(ref_axes)) == len(ref_axes)
axes_distinct(items) ==
    \A i \in DOMAIN items : \A j \in DOMAIN items :
        items[i][1] = items[j][1] => i = j

\* flatten([rst_axis] * n for rst_axis, n in ref_axes)
flat_ref_axes(items) ==
    Flatten([i \in DOMAIN items |-> [j \in 1..items[i][2] |-> items[i][1]]])

\* RefDiffOperator(rst_axis, dd)(expr)
RefDiffOperator(rst_axis, dd, expr) ==
    OperatorBinding([op |-> "ref_diff",
                     dd_out |-> dd,
                     dd_in |-> dd,
                     rst_axis |-> rst_axis], expr)

RECURSIVE apply_ref_diffs(_, _, _)
apply_ref_diffs(result, axes, dd) ==
    IF axes = <<>> THEN result
    ELSE apply_ref_diffs(RefDiffOperator(Head(axes), dd, result), Tail(axes),
                         dd)

\* The coordinate projected to dd before it is differentiated.
forward_metric_nth_derivative_project_first(xyz_axis, ref_axes, dd) ==
    LET items == IF ref_axes.kind = "int" THEN <<<<ref_axes.i, 1>>>>
                 ELSE ref_axes.items
        dd1 == IF dd = NoneDD THEN DD_VOLUME ELSE dd.dd
        inner_dd == DOFDesc(dd1.domain, DISCR_TAG_BASE)
        coord == NodeCoordinateComponent(xyz_axis, inner_dd)
    IN IF ref_axes.kind = "list"
       THEN SymRaised("ValueError", "ref_axes must be a tuple")
       ELSE IF ~is_sorted(items)
       THEN SymRaised("ValueError", "ref_axes must be sorted")
       ELSE IF ~axes_distinct(items)
       THEN SymRaised("ValueError",
                      "ref_axes must not contain an axis more than once")
       ELSE SymReturned(apply_ref_diffs(
                IF uses_quadrature(dd1)
                THEN sym_project(ObjDD(inner_dd), ObjDD(dd1), coord)
                ELSE coord,
                flat_ref_axes(items), inner_dd))

\* forward_metric_nth_derivative(xyz_axis, ref_axes, dd=None)
forward_metric_nth_derivative(xyz_axis, ref_axes, dd) ==
    LET items == IF ref_axes.kind = "int" THEN <<<<ref_axes.i, 1>>>>
                 ELSE ref_axes.items
        dd1 == IF dd = NoneDD THEN DD_VOLUME ELSE dd.dd
        inner_dd == DOFDesc(dd1.domain, DISCR_TAG_BASE)
        result == apply_ref_diffs(NodeCoordinateComponent(xyz_axis, inner_dd),
                                  flat_ref_axes(items), inner_dd)
    IN IF ref_axes.kind = "list"
       THEN SymRaised("ValueError", "ref_axes must be a tuple")
       ELSE IF ~is_sorted(items)
       THEN SymRaised("ValueError", "ref_axes must be sorted")
       ELSE IF ~axes_distinct(items)
       THEN SymRaised("ValueError",
                      "ref_axes must not contain an axis more than once")
       ELSE IF uses_quadrature(dd1)
       THEN SymReturned(sym_project(ObjDD(inner_dd), ObjDD(dd1), result))
       ELSE SymReturned(result)

MetricDDs ==
    {NoneDD, ObjDD(DD_VOLUME), ObjDD(DOFDesc("vol", DISCR_TAG_QUAD)),
     ObjDD(DOFDesc(FACE_RESTR_INTERIOR, DISCR_TAG_QUAD))}

ForwardMetricNthDerivative ==
    \E xyz_axis \in 0..MaxAxis, ref_axes \in RefAxes, dd \in MetricDDs :
        SymCall("forward_metric_nth_derivative",
                [dd |-> dd, xyz_axis |-> xyz_axis, ref_axes |-> ref_axes],
                forward_metric_nth_derivative(xyz_axis, ref_axes, dd))

NextSym ==
    \/ IntTpair
    \/ BdryTpair
    \/ BvTpair
    \/ ParametrizationDerivative
    \/ MvNormal
    \/ Normal
    \/ WithDd
    \/ ForwardMetricNthDerivative

SpecSym == Init /\ [][NextSym]_vars

(***************************************************************************)
(* Reading a symbolic expression: the discretization it lives on and the  *)
(* projections applied to it.                                             *)
(***************************************************************************)
Projected(dd_in, dd_out, expr) ==
    [op |-> [op |-> "project", dd_out |-> dd_out, dd_in |-> dd_in],
     node |-> "binding",
     field |-> expr]

Swapped(expr) ==
    [op |-> [op |-> "swap",
             dd_out |-> DOFDesc(FACE_RESTR_INTERIOR, DISCR_TAG_BASE),
             dd_in |-> DOFDesc(FACE_RESTR_INTERIOR, DISCR_TAG_BASE)],
     node |-> "binding",
     field |-> expr]

RECURSIVE DiscrOf(_)
DiscrOf(expr) ==
    IF expr.node = "var" THEN expr.dd
    ELSE IF expr.node = "cse" THEN DiscrOf(expr.child)
    ELSE expr.op.dd_out

RECURSIVE Projections(_)
Projections(expr) ==
    IF expr.node = "var" THEN <<>>
    ELSE IF expr.node = "cse" THEN Projections(expr.child)
    ELSE IF expr.op.op = "project"
    THEN Append(Projections(expr.field), expr.op)
    ELSE Projections(expr.field)

RECURSIVE HasQuadProjection(_)
HasQuadProjection(expr) ==
    IF expr.node = "var" THEN FALSE
    ELSE IF expr.node = "cse" THEN HasQuadProjection(expr.child)
    ELSE \/ expr.op.op = "project" /\ uses_quadrature(expr.op.dd_out)
         \/ HasQuadProjection(expr.field)

RECURSIVE SwapOfQuadrature(_)
SwapOfQuadrature(expr) ==
    IF expr.node = "var" THEN FALSE
    ELSE IF expr.node = "cse" THEN SwapOfQuadrature(expr.child)
    ELSE \/ expr.op.op = "swap" /\ HasQuadProjection(expr.field)
         \/ SwapOfQuadrature(expr.field)

\* C16: int_tpair called with a descriptor object (or none) as from_dd
\* raises AssertionError and builds no pair when from_dd uses quadrature.
\* Otherwise the base interior value is the expression itself when from_dd
\* is on the interior faces and else its projection from from_dd to the
\* base interior faces; the exterior is the swap of exactly that value;
\* with a quadrature tag both are then projected from the base trace to
\* the quadrature trace, without it they are returned as they are; no swap
\* has a quadrature projection beneath it.
C16_FixedOrder ==
    (last.op = "int_tpair" /\ last.args.from_dd.raw # "str") =>
        LET a == last.args
            from1 == IF a.from_dd = NoneDD THEN DD_VOLUME ELSE a.from_dd.dd
            base == DOFDesc(FACE_RESTR_INTERIOR, DISCR_TAG_BASE)
            quad == DOFDesc(FACE_RESTR_INTERIOR, DISCR_TAG_QUAD)
            i0 == IF from1.domain = FACE_RESTR_INTERIOR THEN a.expression
                  ELSE Projected(from1, base, a.expression)
            e0 == cse(Swapped(i0))
        IN IF from1.tag = DISCR_TAG_QUAD
           THEN last.exc = "AssertionError" /\ last.res = NoValue
           ELSE /\ last.exc = "none"
                /\ IF a.qtag = DISCR_TAG_QUAD
                   THEN /\ last.res.int = cse(Projected(base, quad, i0))
                        /\ last.res.ext = cse(Projected(base, quad, e0))
                   ELSE /\ last.res.int = i0
                        /\ last.res.ext = e0
                /\ ~SwapOfQuadrature(last.res.int)
                /\ ~SwapOfQuadrature(last.res.ext)

\* A pair requested on the quadrature trace from a volume expression.
C16_Witness ==
    /\ last.op = "int_tpair"
    /\ last.args.qtag = DISCR_TAG_QUAD
    /\ last.args.from_dd = ObjDD(DD_VOLUME)
    /\ last.exc = "none"
    /\ HasQuadProjection(last.res.ext)

\* C17: a pair returned by int_tpair for an expression living on from_dd is
\* labelled with the interior faces under the requested tag, both its sides
\* live there and carry the same projections; a pair returned by bv_tpair
\* for an interior living on the volume and an exterior living on dd has
\* its interior on dd and its exterior as supplied; bdry_tpair returns both
\* values as supplied.
C17_SameFaceDiscretization ==
    /\ (/\ last.op = "int_tpair"
        /\ last.exc = "none"
        /\ DiscrOf(last.args.expression) =
               (IF last.args.from_dd = NoneDD THEN DD_VOLUME
                ELSE last.args.from_dd.dd))
       => /\ last.res.dd = MakeDOFDesc(FACE_RESTR_INTERIOR, last.args.qtag)
          /\ DiscrOf(last.res.int) = last.res.dd
          /\ DiscrOf(last.res.ext) = last.res.dd
          /\ Projections(last.res.int) = Projections(last.res.ext)
    /\ (/\ last.op = "bv_tpair"
        /\ DiscrOf(last.args.interior) = DD_VOLUME
        /\ DiscrOf(last.args.exterior) = last.args.dd)
       => /\ last.exc = "none"
          /\ as_dofdesc(last.res.dd) = last.args.dd
          /\ DiscrOf(last.res.int) = last.args.dd
          /\ DiscrOf(last.res.ext) = last.args.dd
          /\ last.res.ext = last.args.exterior
    /\ last.op = "bdry_tpair"
       => /\ last.exc = "none"
          /\ as_dofdesc(last.res.dd) = last.args.dd
          /\ last.res.int = last.args.interior
          /\ last.res.ext = last.args.exterior

\* A volume interior paired with an exterior on the boundary.
C17_Witness ==
    /\ last.op = "bv_tpair"
    /\ last.args.dd = DOFDesc(BTAG_ALL, DISCR_TAG_BASE)
    /\ DiscrOf(last.args.interior) = DD_VOLUME
    /\ DiscrOf(last.args.exterior) = last.args.dd
    /\ last.res.int # last.args.interior

(***************************************************************************)
(* The opposite-face swap on conforming interior-face data.  The interior *)
(* faces of a mesh come in pairs of neighbours; the nodes of a face match *)
(* those of its neighbour in the same or in the reversed order.           *)
(***************************************************************************)
MaxFacePairs == 2

MaxSwaps == 2

\* The nodes of a face of a triangle of order 1.
FaceNodes == 2

InteriorFaces == 1..(2 * MaxFacePairs)

FacePairings ==
    {o \in [InteriorFaces -> InteriorFaces] :
         \A f \in InteriorFaces : o[f] # f /\ o[o[f]] = f}

OppositeFaceConnections ==
    {[opp |-> o, reversed |-> r] : o \in FacePairings, r \in BOOLEAN}

TraceData == [InteriorFaces -> [1..FaceNodes -> {0, 1}]]

\* A face taken to the next face instead of to its neighbour.
opposite_face_next(conn, f) == (f % (2 * MaxFacePairs)) + 1

opposite_face(conn, f) == conn.opp[f]

matching_node(conn, j) == IF conn.reversed THEN FaceNodes + 1 - j ELSE j

\* The value of OppositeInteriorFaceSwap()(vec): every face receives the
\* values of its neighbour's matching nodes.
opposite_face_swap(conn, vec) ==
    [f \in InteriorFaces |->
        [j \in 1..FaceNodes |->
            vec[opposite_face(conn, f)][matching_node(conn, j)]]]

\* A mesh's opposite-face connection and a value on its interior faces.
InitSwap ==
    /\ conns = {}
    /\ discrs = {}
    /\ memo = <<>>
    /\ actxCache = <<>>
    /\ computed = <<>>
    /\ missN = {}
    /\ actxCache2 = <<>>
    /\ evals = [e \in Evaluations |-> Idle]
    /\ operators = {}
    /\ mesh = DefaultMesh
    /\ \E conn \in OppositeFaceConnections, vec \in TraceData :
           last = [res |-> vec,
                   op |-> "opposite_face_swap",
                   args |-> [conn |-> conn, vec |-> vec],
                   times |-> 0]

OppositeFaceSwap ==
    /\ last.op = "opposite_face_swap"
    /\ last.times < MaxSwaps
    /\ last' = [last EXCEPT !.times = @ + 1,
                            !.res = opposite_face_swap(last.args.conn, @)]
    /\ UNCHANGED <<mesh, operators, conns, discrs, memo, actxCache, computed,
                   missN, actxCache2, evals>>

NextSwap == OppositeFaceSwap

SpecSwap == InitSwap /\ [][NextSwap]_vars

DimOf(call) ==
    IF call.args.dim # NoDim THEN call.args.dim
    ELSE IF call.op = "parametrization_derivative" THEN call.args.ambient_dim
    ELSE call.args.ambient_dim - 1

\* C19: the parametrization derivative of dimension 0 on a trace descriptor
\* is the multivector of the signed face ones, which are 1 on the faces of
\* even number and -1 on those of odd number, and on any other descriptor
\* it raises AssertionError; the normal of a 1D mesh on a trace descriptor
\* has the same values and is built from the signed face ones alone.
C19_SignedFaceOnes ==
    /\ (last.op = "parametrization_derivative" /\ DimOf(last) = 0) =>
           IF is_trace(as_dofdesc(last.args.dd))
           THEN /\ last.exc = "none"
                /\ last.res =
                       [data |-> [dd |-> as_dofdesc(last.args.dd),
                                  node |-> "signed_face_ones"],
                        node |-> "multivector"]
                /\ \A face \in PointFaces :
                       last.values[face] = IF face % 2 = 0 THEN 1 ELSE -1
           ELSE last.exc = "AssertionError" /\ last.res = NoValue
    /\ (/\ last.op \in {"mv_normal", "normal"}
        /\ last.args.ambient_dim = 1
        /\ DimOf(last) = 0
        /\ is_trace(as_dofdesc(last.args.dd)))
       => /\ last.exc = "none"
          /\ \A face \in PointFaces :
                 last.values[face] = IF face % 2 = 0 THEN 1 ELSE -1

\* The derivative of dimension 0 on the boundary of a 1D mesh.
C19_Witness ==
    /\ last.op = "parametrization_derivative"
    /\ last.args.ambient_dim = 1
    /\ last.args.dim = 0
    /\ last.args.dd = StrDD(BTAG_ALL)
    /\ last.exc = "none"
    /\ last.values[1] = -1

\* C20 as the specification states it: mv_normal and normal raise an error
\* with a reason for every descriptor that is not a trace, and raise for
\* every dim below ambient_dim - 1.
C20_FailsAboveCodimension1_AsClaimed ==
    last.op \in {"mv_normal", "normal"} =>
        /\ ~is_trace(as_dofdesc(last.args.dd)) =>
               last.exc # "none" /\ last.reason # ""
        /\ DimOf(last) < last.args.ambient_dim - 1 => last.exc # "none"

\* C20: mv_normal and normal raise ValueError "may only request normals on
\* boundaries" for every descriptor that is not a trace; on a trace they
\* return the surface normal for dim = ambient_dim - 1, return a unit face
\* normal for dim = ambient_dim - 2, and raise AssertionError with no
\* reason for every other dim.
C20_NormalOutcomes ==
    last.op \in {"mv_normal", "normal"} =>
        IF ~is_trace(as_dofdesc(last.args.dd))
        THEN /\ last.exc = "ValueError"
             /\ last.reason = "may only request normals on boundaries"
             /\ last.res = NoValue
        ELSE IF DimOf(last) = last.args.ambient_dim - 1
        THEN last.exc = "none" /\ last.res # NoValue
        ELSE IF DimOf(last) = last.args.ambient_dim - 2
        THEN last.exc = "none" /\ last.res # NoValue
        ELSE /\ last.exc = "AssertionError"
             /\ last.reason = ""
             /\ last.res = NoValue

\* The normal of a curve on the faces of a surface mesh in 3D.
C20_Witness ==
    /\ last.op = "mv_normal"
    /\ last.args.ambient_dim = 3
    /\ last.args.dim = 1
    /\ is_trace(as_dofdesc(last.args.dd))
    /\ last.exc = "none"

\* C29: the constructor of the Burgers operator refuses a flux type exactly
\* when burgers_numerical_flux raises NotImplementedError for it.
C29_FluxValidationsAgree ==
    last.op = "InviscidBurgers" =>
        LET refused == last.exc = "NotImplementedError"
                           /\ last.named = last.flux_type
            usable == burgers_numerical_flux(
                          Dcoll, last.flux_type,
                          TracePair(DD_INT_FACES, DOFArray(1), DOFArray(1)),
                          DOFArray(1)).exc = "none"
        IN refused <=> ~usable

\* The reference matrices the body of a memoized function asks for, in the
\* order it asks for them.
Requires(fn) ==
    CASE fn = "quadrature_based_l2_projection_matrix" ->
             <<"volume_quadrature_interpolation_matrix",
               "quadrature_based_inverse_mass_matrix">>
      [] fn = "quadrature_based_inverse_mass_matrix" ->
             <<"quadrature_based_mass_matrix">>
      [] fn = "quadrature_based_mass_matrix" ->
             <<"volume_quadrature_interpolation_matrix">>
      [] OTHER -> <<>>

\* C30: every entry of the L2 projection, inverse mass and mass caches has,
\* under the same pair of keys, the entries its body asks for, and was built
\* from exactly those stored entries; so an L2 projection entry comes with
\* inverse mass, mass and volume interpolation entries, an inverse mass
\* entry with a mass entry and a mass entry with a volume interpolation
\* entry.
C30_CachesClosed ==
    \A k \in DOMAIN actxCache :
        /\ \A i \in DOMAIN Requires(k.fn) :
               LET dep == CacheKey(Requires(k.fn)[i], k.keys)
               IN /\ dep \in DOMAIN actxCache
                  /\ actxCache[k].uses[i] = actxCache[dep]
        /\ k.fn = "quadrature_based_l2_projection_matrix" =>
               /\ CacheKey("quadrature_based_mass_matrix", k.keys)
                      \in DOMAIN actxCache
               /\ CacheKey("volume_quadrature_interpolation_matrix", k.keys)
                      \in DOMAIN actxCache

\* An L2 projection matrix computed on a request that missed, with its
\* three dependencies stored.
C30_Witness ==
    /\ last.op = "quadrature_based_l2_projection_matrix"
    /\ last.exc = "none"
    /\ ~last.hit
    /\ last.key \in DOMAIN actxCache
    /\ CacheKey("quadrature_based_inverse_mass_matrix", last.key.keys)
           \in DOMAIN actxCache
    /\ CacheKey("quadrature_based_mass_matrix", last.key.keys)
           \in DOMAIN actxCache
    /\ CacheKey("volume_quadrature_interpolation_matrix", last.key.keys)
           \in DOMAIN actxCache

\* C25: with_dd(dd) returns an expression of the class of self, with the
\* other constructor arguments of self, whose descriptor is dd.
C25_WithDdReplacesDescriptor ==
    last.op = "with_dd" =>
        /\ last.exc = "none"
        /\ last.res.node = last.args.self.node
        /\ last.res = [last.args.self EXCEPT !.dd = last.args.dd]

\* The reference derivatives of an expression along an axis.
RECURSIVE DiffCount(_, _)
DiffCount(expr, axis) ==
    IF expr.node = "binding"
    THEN DiffCount(expr.field, axis)
         + (IF expr.op.op = "ref_diff" /\ expr.op.rst_axis = axis
            THEN 1 ELSE 0)
    ELSE 0

\* The expression with its outermost projection, if it has one, taken off.
Unprojected(expr) ==
    IF expr.node = "binding" /\ expr.op.op = "project" THEN expr.field
    ELSE expr

\* An expression made of reference derivatives on dd alone, of a node
\* coordinate component on dd.
RECURSIVE DerivativesOfCoordinate(_, _, _)
DerivativesOfCoordinate(expr, xyz_axis, dd) ==
    IF expr.node = "binding"
    THEN /\ expr.op.op = "ref_diff"
         /\ expr.op.dd_in = dd
         /\ DerivativesOfCoordinate(expr.field, xyz_axis, dd)
    ELSE /\ expr.node = "node_coordinate_component"
         /\ expr.axis = xyz_axis
         /\ expr.dd = dd

\* C27: an integer ref_axes i is treated as ((i, 1),); a list, an unsorted
\* tuple and a tuple naming an axis twice raise ValueError and nothing is
\* returned; otherwise the result is the node coordinate component on the
\* base descriptor differentiated there n times along each listed axis and
\* along no other, projected from the base descriptor to dd, outermost and
\* once, exactly when dd uses quadrature.
C27_ValidatedAndOrdered ==
    last.op = "forward_metric_nth_derivative" =>
        LET a == last.args
            items == IF a.ref_axes.kind = "int" THEN <<<<a.ref_axes.i, 1>>>>
                     ELSE a.ref_axes.items
            dd1 == IF a.dd = NoneDD THEN DD_VOLUME ELSE a.dd.dd
            base == [dd1 EXCEPT !.tag = DISCR_TAG_BASE]
            bad == \/ a.ref_axes.kind = "list"
                   \/ \E i, j \in DOMAIN items :
                          i < j /\ items[j][1] <= items[i][1]
        IN IF bad
           THEN last.exc = "ValueError" /\ last.res = NoValue
           ELSE /\ last.exc = "none"
                /\ DerivativesOfCoordinate(Unprojected(last.res), a.xyz_axis,
                                           base)
                /\ \A axis \in 0..MaxAxis :
                       DiffCount(last.res, axis) =
                           (IF \E i \in DOMAIN items : items[i][1] = axis
                            THEN items[CHOOSE i \in DOMAIN items :
                                           items[i][1] = axis][2]
                            ELSE 0)
                /\ IF dd1.tag = DISCR_TAG_QUAD
                   THEN /\ last.res.node = "binding"
                        /\ last.res.op.op = "project"
                        /\ last.res.op.dd_in = base
                        /\ last.res.op.dd_out = dd1
                   ELSE last.res = Unprojected(last.res)

\* Two derivatives along axis 0 and one along axis 1, on the quadrature
\* volume.
C27_Witness ==
    /\ last.op = "forward_metric_nth_derivative"
    /\ last.args.ref_axes = TupleAxes(<<<<0, 2>>, <<1, 1>>>>)
    /\ last.args.dd = ObjDD(DOFDesc("vol", DISCR_TAG_QUAD))
    /\ last.exc = "none"
    /\ DiffCount(last.res, 0) = 2

(***************************************************************************)
(* Symbolic operators: construction, equality and hash.                    *)
(***************************************************************************)
\* where=None
WhereNone == "none"

Unset == "unset"

NoAxis == -1

Wheres == {WhereNone, BTAG_ALL}

\* Operator.__init__(self, where=None), inherited by MassOperator
MassOperator(where) ==
    [tag |-> Unset,
     cls |-> "MassOperator",
     axis |-> NoAxis,
     where |-> where,
     quadrature_tag |-> Unset]

\* DiffOperatorBase.__init__(self, xyz_axis), inherited by
\* DifferentiationOperator
DifferentiationOperator(xyz_axis) ==
    [tag |-> Unset,
     cls |-> "DifferentiationOperator",
     axis |-> xyz_axis,
     where |-> WhereNone,
     quadrature_tag |-> Unset]

\* ReferenceDiffOperatorBase.__init__(self, rst_axis, where=None), inherited
\* by ReferenceDifferentiationOperator
ReferenceDifferentiationOperator(rst_axis, where) ==
    [tag |-> Unset,
     cls |-> "ReferenceDifferentiationOperator",
     axis |-> rst_axis,
     where |-> where,
     quadrature_tag |-> Unset]

\* QuadratureGridUpsampler.__init__(self, quadrature_tag, where=None)
QuadratureGridUpsampler(quadrature_tag, where) ==
    [tag |-> Unset,
     cls |-> "QuadratureGridUpsampler",
     axis |-> NoAxis,
     where |-> where,
     quadrature_tag |-> quadrature_tag]

\* BoundarizeOperator.__init__(self, tag)
BoundarizeOperator(tag) ==
    [tag |-> tag,
     cls |-> "BoundarizeOperator",
     axis |-> NoAxis,
     where |-> Unset,
     quadrature_tag |-> Unset]

\* __getinitargs__ of the operator's class
operator_getinitargs(self) ==
    CASE self.cls = "MassOperator" -> <<self.where>>
      [] self.cls = "DifferentiationOperator" -> <<self.axis>>
      [] self.cls = "ReferenceDifferentiationOperator" ->
             <<self.axis, self.where>>
      [] self.cls = "QuadratureGridUpsampler" -> <<self.quadrature_tag>>
      [] self.cls = "BoundarizeOperator" -> <<self.tag>>

\* Operator.get_hash: the hashed tuple stands for its hash.
get_hash(self) == <<self.cls>> \o operator_getinitargs(self)

\* Operator.is_equal
is_equal(self, other) ==
    /\ self.cls = other.cls
    /\ operator_getinitargs(self) = operator_getinitargs(other)

SymbolicOperators ==
    {MassOperator(where) : where \in Wheres}
    \cup {DifferentiationOperator(axis) : axis \in 0..MaxAxis}
    \cup {ReferenceDifferentiationOperator(axis, where) :
              axis \in 0..MaxAxis, where \in Wheres}
    \cup {QuadratureGridUpsampler(qtag, where) :
              qtag \in {DISCR_TAG_BASE, DISCR_TAG_QUAD}, where \in Wheres}
    \cup {BoundarizeOperator(tag) : tag \in Wheres}

IsEqual ==
    \E self \in SymbolicOperators, other \in SymbolicOperators :
        SymCall("is_equal", [self |-> self, other |-> other],
                SymReturned([equal |-> is_equal(self, other),
                             hash_self |-> get_hash(self),
                             hash_other |-> get_hash(other)]))

NextOperators == IsEqual

SpecOperators == Init /\ [][NextOperators]_vars

\* C28: two operators are equal exactly when they have the same class and
\* were constructed with equal arguments, where included, and equal
\* operators have equal hashes; two QuadratureGridUpsamplers that differ
\* only in where are not equal.
C28_EqualityRespectsArguments ==
    last.op = "is_equal" =>
        /\ last.res.equal <=> (last.args.self = last.args.other)
        /\ last.res.equal => last.res.hash_self = last.res.hash_other

(***************************************************************************)
(* The metric derivatives at one node.  A coordinate map is given there by  *)
(* its derivatives J[i][j] = dx_i/dr_j; a multivector of top grade is given *)
(* by its coefficient of the unit pseudoscalar.                            *)
(***************************************************************************)
MaxEntry == 1

MetricEntries == 0..MaxEntry

MetricDims == 1..3

FracAdd(a, b) == Frac(a.n * b.d + b.n * a.d, a.d * b.d)

FracScale(c, a) == Frac(c * a.n, a.d)

FracIs(a, c) == a.d # 0 /\ a.n = c * a.d

RECURSIVE FracSumTo(_, _)
FracSumTo(f, n) ==
    IF n = 0 THEN Frac(0, 1) ELSE FracAdd(FracSumTo(f, n - 1), f[n])

\* forward_metric_derivative_vector(ambient_dim, rst_axis, dd) at the node
forward_metric_derivative_vector_at(J, rst_axis) ==
    [i \in 1..Len(J) |-> J[i][rst_axis + 1]]

\* unit_vec = np.zeros(dim); unit_vec[i] = 1
unit_vec(dim, i) == [k \in 1..dim |-> IF k = i + 1 THEN 1 ELSE 0]

WithoutComponent(vecs, i) ==
    [v \in 1..(Len(vecs) - 1) |->
        [k \in 1..(Len(vecs) - 1) |-> vecs[v + 1][IF k < i THEN k ELSE k + 1]]]

\* outerprod(vecs) of as many vectors as the space has dimensions
RECURSIVE outerprod(_)
outerprod(vecs) ==
    IF Len(vecs) = 0 THEN 1
    ELSE SumTo([i \in 1..Len(vecs) |->
                   (IF i % 2 = 1 THEN 1 ELSE -1) * vecs[1][i]
                   * outerprod(WithoutComponent(vecs, i))], Len(vecs))

par_vecs(J) ==
    [rst \in 1..Len(J) |-> forward_metric_derivative_vector_at(J, rst - 1)]

\* outprod_with_unit(i, at)
outprod_with_unit(J, i, at) ==
    outerprod([par_vecs(J) EXCEPT ![at + 1] = unit_vec(Len(J), i)])

\* The unit vector put in place of the derivative along xyz_axis.
inverse_metric_derivative_at_swapped(J, rst_axis, xyz_axis) ==
    Frac(outprod_with_unit(J, rst_axis, xyz_axis), outerprod(par_vecs(J)))

\* inverse_metric_derivative(rst_axis, xyz_axis, ambient_dim) at the node:
\* (outprod_with_unit(xyz_axis, rst_axis) * volume_pseudoscalar_inv)
\* .as_scalar()
inverse_metric_derivative_at(J, rst_axis, xyz_axis) ==
    Frac(outprod_with_unit(J, xyz_axis, rst_axis), outerprod(par_vecs(J)))

\* forward_metric_derivative_mat at the node
forward_metric_derivative_mat_at(J) ==
    [i \in 1..Len(J) |->
        [j \in 1..Len(J) |-> forward_metric_derivative_vector_at(J, j - 1)[i]]]

\* inverse_metric_derivative_mat at the node
inverse_metric_derivative_mat_at(J) ==
    [i \in 1..Len(J) |->
        [j \in 1..Len(J) |-> inverse_metric_derivative_at(J, i - 1, j - 1)]]

\* forward.dot(inverse)
MetricProduct(J) ==
    LET fwd == forward_metric_derivative_mat_at(J)
        inv == inverse_metric_derivative_mat_at(J)
    IN [i \in 1..Len(J) |->
           [j \in 1..Len(J) |->
               FracSumTo([k \in 1..Len(J) |-> FracScale(fwd[i][k], inv[k][j])],
                         Len(J))]]

\* A coordinate map at a node.
InitMetric ==
    /\ conns = {}
    /\ discrs = {}
    /\ memo = <<>>
    /\ actxCache = <<>>
    /\ computed = <<>>
    /\ missN = {}
    /\ actxCache2 = <<>>
    /\ evals = [e \in Evaluations |-> Idle]
    /\ operators = {}
    /\ mesh = DefaultMesh
    /\ \E n \in MetricDims :
           \E J \in [1..n -> [1..n -> MetricEntries]] :
               last = [op |-> "coordinate_map", args |-> [J |-> J]]

\* test_inverse_metric: the product of the two matrices at the node.
InverseMetric ==
    /\ last.op = "coordinate_map"
    /\ last' = [res |-> MetricProduct(last.args.J),
                op |-> "test_inverse_metric",
                args |-> last.args]
    /\ UNCHANGED <<mesh, operators, conns, discrs, memo, actxCache, computed,
                   missN, actxCache2, evals>>

NextMetric == InverseMetric

SpecMetric == InitMetric /\ [][NextMetric]_vars

\* C23: for a square coordinate map of dimension 1 to 3 whose Jacobian
\* determinant is not zero, the forward metric derivative matrix times the
\* inverse metric derivative matrix is the identity at the node.
C23_MetricIdentity ==
    (/\ last.op = "test_inverse_metric"
     /\ outerprod(par_vecs(last.args.J)) # 0)
        => \A i, j \in 1..Len(last.args.J) :
               FracIs(last.res[i][j], IF i = j THEN 1 ELSE 0)

C23_Witness ==
    /\ last.op = "test_inverse_metric"
    /\ Len(last.args.J) = 3
    /\ outerprod(par_vecs(last.args.J)) \notin {-1, 0, 1}
    /\ last.args.J[1][2] # last.args.J[2][1]
    /\ \A i, j \in 1..3 : FracIs(last.res[i][j], IF i = j THEN 1 ELSE 0)

(***************************************************************************)
(* Mass and inverse mass on one element.  The reference element has the    *)
(* interpolation matrix vdm_q from its base nodes to its quadrature nodes  *)
(* and the quadrature weights; the element has its area element and a      *)
(* field value at each base node.                                          *)
(***************************************************************************)
\* The numbers of base nodes and of quadrature nodes of a reference element.
NodeCounts == 1..2

QuadWeights == 1..2

AreaElements == 1..2

\* vdm_q.T @ weights @ vdm_q
ref_quad_mass_mat(vdm_q, weights) ==
    [i \in 1..Len(vdm_q[1]) |->
        [j \in 1..Len(vdm_q[1]) |->
            SumTo([k \in 1..Len(vdm_q) |->
                      vdm_q[k][i] * weights[k] * vdm_q[k][j]], Len(vdm_q))]]

\* np.linalg.inv(mat): LinAlgError for a singular matrix
linalg_inv(mat) ==
    IF outerprod(mat) = 0 THEN SymRaised("LinAlgError", "Singular matrix")
    ELSE SymReturned(
             [i \in 1..Len(mat) |->
                 [j \in 1..Len(mat) |->
                     Frac(outerprod([k \in 1..Len(mat) |->
                                        [mat[k] EXCEPT ![i] =
                                             IF k = j THEN 1 ELSE 0]]),
                          outerprod(mat))]])

\* The inverse taken of the mass matrix without the quadrature weights.
ref_quad_inv_mass_mat_unweighted(vdm_q, weights) ==
    linalg_inv(ref_quad_mass_mat(vdm_q, [k \in 1..Len(vdm_q) |-> 1]))

\* np.linalg.inv(mass_mat) of get_ref_quad_inv_mass_mat
ref_quad_inv_mass_mat(vdm_q, weights) ==
    linalg_inv(ref_quad_mass_mat(vdm_q, weights))

\* The mass matrix applied first and the area element after it.
mass_scaled_after(mass_mat, jac, vec) ==
    [i \in 1..Len(vec) |->
        jac[i]
        * SumTo([j \in 1..Len(vec) |-> mass_mat[i][j] * vec[j]], Len(vec))]

\* mass(dcoll, dd, vec) on the element: the reference mass matrix applied to
\* the field scaled by the area element.
mass(mass_mat, jac, vec) ==
    [i \in 1..Len(vec) |->
        SumTo([j \in 1..Len(vec) |->
                  mass_mat[i][j] * jac[j] * vec[j]], Len(vec))]

\* inverse_mass(dcoll, vec) on the element: the inverse reference mass
\* matrix applied, then the division by the area element.
inverse_mass(inv_mass_mat, jac, vec) ==
    [i \in 1..Len(vec) |->
        LET applied == FracSumTo([j \in 1..Len(vec) |->
                                     FracScale(vec[j], inv_mass_mat[i][j])],
                                 Len(vec))
        IN Frac(applied.n, applied.d * jac[i])]

\* inv_mass_mat @ mass_mat
InverseTimesMass(inv_mass_mat, mass_mat) ==
    [i \in 1..Len(mass_mat) |->
        [j \in 1..Len(mass_mat) |->
            FracSumTo([k \in 1..Len(mass_mat) |->
                          FracScale(mass_mat[k][j], inv_mass_mat[i][k])],
                      Len(mass_mat))]]

\* A reference element, an element's area element and a field on it.
InitMass ==
    /\ conns = {}
    /\ discrs = {}
    /\ memo = <<>>
    /\ actxCache = <<>>
    /\ computed = <<>>
    /\ missN = {}
    /\ actxCache2 = <<>>
    /\ evals = [e \in Evaluations |-> Idle]
    /\ operators = {}
    /\ mesh = DefaultMesh
    /\ \E n \in NodeCounts, q \in NodeCounts :
           \E el \in [vec : [1..n -> MetricEntries],
                       area_element : [1..n -> AreaElements],
                       vdm_q : [1..q -> [1..n -> MetricEntries]],
                       weights : [1..q -> QuadWeights]] :
               last = [op |-> "element", args |-> el]

MassCall(op, r) ==
    /\ last' = [res |-> r.res, op |-> op, exc |-> r.exc, args |-> last.args]
    /\ UNCHANGED <<mesh, operators, conns, discrs, memo, actxCache, computed,
                   missN, actxCache2, evals>>

\* op.mass(dcoll, dd, f_volm)
Mass ==
    /\ last.op = "element"
    /\ MassCall("mass",
                SymReturned(mass(ref_quad_mass_mat(last.args.vdm_q,
                                                   last.args.weights),
                                 last.args.area_element, last.args.vec)))

\* op.inverse_mass(dcoll, op.mass(dcoll, dd, f_volm))
InverseMass ==
    /\ last.op = "mass"
    /\ LET inv == ref_quad_inv_mass_mat(last.args.vdm_q, last.args.weights)
       IN MassCall("inverse_mass",
                   IF inv.exc # "none" THEN inv
                   ELSE SymReturned(inverse_mass(inv.res,
                                                 last.args.area_element,
                                                 last.res)))

\* quadrature_based_inverse_mass_matrix @ quadrature_based_mass_matrix
ReferenceInverseTimesMass ==
    /\ last.op = "element"
    /\ LET inv == ref_quad_inv_mass_mat(last.args.vdm_q, last.args.weights)
       IN MassCall("inverse_times_mass",
                   IF inv.exc # "none" THEN inv
                   ELSE SymReturned(InverseTimesMass(inv.res,
                            ref_quad_mass_mat(last.args.vdm_q,
                                              last.args.weights))))

NextMass ==
    \/ Mass
    \/ InverseMass
    \/ ReferenceInverseTimesMass

SpecMass == InitMass /\ [][NextMass]_vars

MassInvertible ==
    outerprod(ref_quad_mass_mat(last.args.vdm_q, last.args.weights)) # 0

CurvDim == IF last.args.dim = NoDim THEN last.args.ambient_dim - 1
           ELSE last.args.dim

\* C21: summed_curvature is exactly zero, with nothing built, when the
\* ambient dimension is one and when dim equals the ambient dimension; in
\* codimension one it is the trace of the shape operator, which exists for
\* curves and surfaces.
C21_SummedCurvature ==
    last.op = "summed_curvature" =>
        LET sop == shape_operator(last.args.ambient_dim, CurvDim,
                                  last.args.dd)
        IN /\ (last.args.ambient_dim = 1 \/ CurvDim = last.args.ambient_dim)
                  => last.exc = "none" /\ last.res = Zero
           /\ (last.args.ambient_dim # 1
               /\ CurvDim = last.args.ambient_dim - 1)
                  => /\ CurvDim \in {1, 2} => sop.exc = "none"
                     /\ IF sop.exc = "none"
                        THEN /\ last.exc = "none"
                             /\ last.res = cse([node |-> "trace",
                                                child |-> sop.res])
                        ELSE last.exc = sop.exc

C21_Witness ==
    /\ last.op = "summed_curvature"
    /\ last.args.ambient_dim = 3
    /\ last.args.dim = NoDim
    /\ last.exc = "none"
    /\ last.res # Zero

\* C22 as claimed: off the square case both forms return only for surface
\* dimension 1 or 2 and raise ValueError naming the dimension otherwise.
C22_UnsupportedIsValueError_AsClaimed ==
    (/\ last.op \in {"inverse_first_fundamental_form",
                     "second_fundamental_form"}
     /\ CurvDim # last.args.ambient_dim
     /\ CurvDim \notin {1, 2})
        => /\ last.exc = "ValueError"
           /\ last.reason = SurfacesNotSupported(CurvDim)

\* C22: off the square case inverse_first_fundamental_form returns for
\* surface dimension 1 or 2 and raises ValueError naming the dimension
\* otherwise; second_fundamental_form returns only for surface dimension 1
\* or 2 and otherwise raises, ValueError naming the dimension in codimension
\* one on a trace descriptor, AssertionError for dimension 0 on a descriptor
\* that is not a trace; in the square case the inverse first form is built
\* from the inverse metric derivatives; inverse_metric_derivative raises
\* ValueError exactly when dim differs from the ambient dimension.
C22_SupportedSurfaceDimensions ==
    /\ (/\ last.op = "inverse_first_fundamental_form"
        /\ CurvDim # last.args.ambient_dim)
           => IF CurvDim \in {1, 2} THEN last.exc = "none"
              ELSE /\ last.exc = "ValueError"
                   /\ last.reason = SurfacesNotSupported(CurvDim)
    /\ (/\ last.op = "second_fundamental_form"
        /\ CurvDim # last.args.ambient_dim)
           => /\ last.exc = "none" => CurvDim \in {1, 2}
              /\ (CurvDim = 0 /\ ~is_trace(as_dofdesc(last.args.dd)))
                     => last.exc = "AssertionError"
              /\ (/\ CurvDim = last.args.ambient_dim - 1
                  /\ is_trace(as_dofdesc(last.args.dd)) \/ CurvDim # 0)
                     => IF CurvDim \in {1, 2} THEN last.exc = "none"
                        ELSE /\ last.exc = "ValueError"
                             /\ last.reason = SurfacesNotSupported(CurvDim)
    /\ (/\ last.op = "inverse_first_fundamental_form"
        /\ CurvDim = last.args.ambient_dim)
           => /\ last.exc = "none"
              /\ last.res.child.how = "inverse_metric"
    /\ last.op = "inverse_metric_derivative"
           => LET dim1 == IF last.args.dim = NoDim THEN last.args.ambient_dim
                          ELSE last.args.dim
              IN (last.exc = "ValueError") <=> (dim1 # last.args.ambient_dim)

C22_Witness ==
    /\ last.op = "second_fundamental_form"
    /\ last.args.ambient_dim = 1
    /\ last.args.dim = 0
    /\ is_trace(as_dofdesc(last.args.dd))
    /\ last.exc = "ValueError"
    /\ last.reason = SurfacesNotSupported(0)

\* C26: mean_curvature returns zero without raising when dim equals the
\* ambient dimension or the ambient dimension is one.
C26_MeanCurvatureZero ==
    (/\ last.op = "mean_curvature"
     /\ (last.args.ambient_dim = 1 \/ CurvDim = last.args.ambient_dim))
        => last.exc = "none" /\ last.res = Zero

====
